---- MODULE Spec2Model ----
(***************************************************************************)
(* Device-acquisition runtime of gridbeat: the mbus / cmbus worker         *)
(* instances (Init, runPoller, Close, UpdateConfig) and the instance       *)
(* manager (Create, Update, Destroy, DestroyAll, Get) that owns them.      *)
(*                                                                         *)
(* Goroutines are modelled as processes with a program counter.  A step    *)
(* is the code between two suspension points (a lock acquisition, a        *)
(* WaitGroup wait, a select, a transport call).  Code that runs with the   *)
(* instance mutex held and touches only fields no other goroutine reads    *)
(* without that mutex is one step.                                         *)
(***************************************************************************)
EXTENDS Integers, FiniteSets, Sequences, TLC

\* ------------------------------------------------------------------ bounds
NThreads == 2
MaxCalls == 2
MaxOps == 3
MaxInst == 2
MaxPollers == 2
MaxImports == 3

Threads == 1..NThreads
Insts == 1..MaxInst
Slots == 1..MaxPollers

\* ----------------------------------------------------- configuration values
\* A URL is <<scheme, host or device, port>>; the empty string is NoURL.
NoURL == <<"", "", 0>>

\* The zero value of InstanceConfig (what New stores for a nil raw config).
ZeroCfg ==
    [PhysicalLink |-> "", Device |-> "", Device2 |-> "", TCPIPAddr |-> "",
     TCPPort |-> 0, URL |-> NoURL, UnitID |-> 0, StartAddr |-> 0,
     Quantity |-> 0, RegType |-> ""]

Types == {"mbus", "cmbus"}

\* The channel row the server passes as Model (models.GetDefaultSerialRow).
ChannelModel(link) ==
    [ZeroCfg EXCEPT !.PhysicalLink = link, !.Device = "/dev/ttyS0",
                    !.Device2 = "/dev/ttyS1", !.TCPIPAddr = "localhost",
                    !.TCPPort = 5502]

\* URL as Init of the mbus plugin builds it from the channel row.
MbusURL(cfg) ==
    IF cfg.PhysicalLink = "serial"
    THEN <<"rtu", cfg.Device, 0>>
    ELSE <<"tcp", cfg.TCPIPAddr, cfg.TCPPort>>

\* URL as Init of the cmbus plugin builds it (the second serial device).
CmbusURL(cfg) ==
    IF cfg.PhysicalLink = "serial"
    THEN <<"rtu", cfg.Device2, 0>>
    ELSE <<"tcp", cfg.TCPIPAddr, cfg.TCPPort>>

URLOf(typ, cfg) == IF typ = "mbus" THEN MbusURL(cfg) ELSE CmbusURL(cfg)

\* The configuration the server creates an mbus instance with: the channel
\* row (a serial one by default), unit 1, one register from address 100.
MbusBase ==
    [ChannelModel("serial") EXCEPT !.UnitID = 1, !.StartAddr = 100, !.Quantity = 1]

\* Configurations a caller may pass to an mbus instance: the server's, and
\* the server's with one field changed (the link, the start address, the
\* quantity left zero, the URL filled in).
MbusCfgs ==
    { MbusBase,
      [MbusBase EXCEPT !.PhysicalLink = "TCPclient"],
      [MbusBase EXCEPT !.StartAddr = 101],
      [MbusBase EXCEPT !.Quantity = 0],
      [MbusBase EXCEPT !.URL = MbusURL(MbusBase)] }

\* The configuration the server creates a cmbus instance with.
CmbusBase == ChannelModel("serial")

\* Configurations a caller may pass to a cmbus instance (Model and URL only).
CmbusCfgs ==
    { CmbusBase,
      [CmbusBase EXCEPT !.PhysicalLink = "TCPclient"],
      [CmbusBase EXCEPT !.URL = CmbusURL(CmbusBase)] }

\* What the server passes to Create for a channel.
CreateCfgs(typ) == { <<IF typ = "mbus" THEN MbusBase ELSE CmbusBase>> }

\* What callers pass to Update: the configuration of Create again, or the
\* channel moved to the other link.
UpdateCfgs(typ) ==
    { <<c>> : c \in IF typ = "mbus"
                    THEN {MbusBase, [MbusBase EXCEPT !.PhysicalLink = "TCPclient"]}
                    ELSE {CmbusBase, [CmbusBase EXCEPT !.PhysicalLink = "TCPclient"]} }

\* A raw pluginapi.InstanceConfig: <<>> is nil, <<c>> holds the value c.
RawCfgs(typ) ==
    {<<>>} \cup { <<c>> : c \in IF typ = "mbus" THEN MbusCfgs ELSE CmbusCfgs }

\* Factory.New: the configuration stored in a fresh instance.
NewCfg(raw) == IF Len(raw) = 0 THEN ZeroCfg ELSE raw[1]

\* The defaults UpdateConfig and Init of mbus fill in; cmbus fills none.
FillDefaults(typ, cfg) ==
    IF typ = "mbus"
    THEN [cfg EXCEPT !.Quantity = IF cfg.Quantity = 0 THEN 10 ELSE cfg.Quantity,
                     !.RegType = IF cfg.RegType = "" THEN "holding" ELSE cfg.RegType]
    ELSE cfg

\* modbus.NewClient / modbus.NewServer accept the schemes Init builds.
SchemeOK(url) == url[1] \in {"rtu", "tcp"}

\* --------------------------------------------------------------- the state
VARIABLES
    inst,           \* the instance objects: fields of ModbusInstance
    poller,         \* poller[i][s]: position of a goroutine runPoller of i
    th,             \* the calling goroutines: position and locals
    rootCancelled,  \* the root context has been cancelled
    panicked,       \* a goroutine dereferenced nil: the process is gone
    calls,          \* top-level calls made so far
    instances,      \* InstanceManager.instances: (type, id) -> instance
    mgrMu,          \* InstanceManager.mu: 0, or the goroutine holding it
    nDaDel,         \* per key: entries DestroyAll has removed
    nSpawn,         \* per instance: poller goroutines started so far
    nClosed,        \* per instance: times Close took it from init to closed
    nCreate,        \* per key: Create calls that returned nil
    nDestroy,       \* per key: Destroy calls that returned nil
    destroyed,      \* instances for which Destroy has returned nil
    ucKept,         \* an UpdateConfig left a running worker running
    noop,           \* the last Init or Close that returned at its first check
    tbl,            \* the tables device_types and device_type_points
    uuids,          \* how many times uuid.NewString() has been called
    hist,           \* the ImportDeviceType calls made: arguments, result, tables after
    vspec,          \* the TypeSpec handed to ValidateSpec
    verr,           \* what ValidateSpec returned for it
    sc,             \* a Scalar: Kind and Raw
    sset,           \* the setter that produced sc, with its argument
    sget,           \* the last getter called on sc, with its results
    sjs,            \* the last MarshalJSON / UnmarshalJSON trip of sc
    bank,           \* the simulator's registers: coils, holdingReg, uptime
    sim,            \* the last request handled by the simulator and its answer
    factories,      \* pluginapi.factories: type -> Factory
    rlog,           \* the RegisterFactory calls made: argument, panic or not
    rget,           \* the last GetFactory call: argument and results
    merr,           \* the manager operation that last returned its own error
    da,             \* per caller of DestroyAll: the instances the map held when it
                    \* took the lock, and those it has closed and deleted
    exited,         \* the signal handler has called os.Exit
    tok,            \* the auth_tokens table: per jti, the row or NoTok
    rq,             \* the HTTP requests in progress, one per connection
    clock,          \* wall-clock time, in units of the idle timeout's resolution
    chan,           \* the channel table: a set of rows
    nextId,         \* the next value of the channel table's autoincrement key
    slog            \* the last SyncSerials call: argument, result, table before

vars == <<inst, poller, th, rootCancelled, panicked, calls, instances, mgrMu,
          nDaDel, nSpawn, nClosed, nCreate, nDestroy, destroyed, da, ucKept, noop,
          tbl, uuids, hist, vspec, verr,
          sc, sset, sget, sjs, bank, sim, factories, rlog, rget, merr, exited,
          tok, rq, clock, chan, nextId, slog>>

mgrVars == <<instances, mgrMu, nDaDel, nCreate, nDestroy, destroyed, da, merr>>

impVars == <<tbl, uuids, hist>>

\* The arguments and results of the functions checked on their own.
valVars == <<vspec, verr>>

scVars == <<sc, sset, sget, sjs>>

simVars == <<bank, sim>>

regVars == <<factories, rlog, rget>>

authVars == <<tok, rq, clock>>

serVars == <<chan, nextId, slog>>

pureVars == <<valVars, scVars, simVars, regVars, authVars, serVars>>

\* The variables of the worker instances and of their manager.
wmVars == <<inst, poller, th, rootCancelled, panicked, exited, calls, mgrVars,
            nSpawn, nClosed, ucKept, noop>>

\* No call made yet: no argument, no result.
NoDa == [seen |-> {}, closed |-> {}]
NoCall == [msg |-> "no call", at |-> 0 - 1, code |-> ""]
NoSpec == [TypeKey |-> "", NameEn |-> "", Points |-> <<>>]
ValIdle == vspec = NoSpec /\ verr = NoCall
\* Kind: the iota constants.
KindInvalid == 0
KindBool == 1
KindUint16 == 2
KindSint16 == 3
KindUint32 == 4
KindSint32 == 5
KindSint64 == 6
KindUint64 == 7
KindFloat32 == 8
KindFloat64 == 9
KindString == 10
KindBytes == 11
KindBitMask == 12

\* var s Scalar: the zero value; no setter, getter or JSON trip yet.
ZeroScalar == [Kind |-> KindInvalid, Raw |-> <<>>]
NoSet == [k |-> KindInvalid, v |-> 0]
NoGet == [k |-> KindInvalid, val |-> 0, err |-> "nil"]
NoJS == [done |-> FALSE, merr |-> "nil", uerr |-> "nil", out |-> ZeroScalar]
ScIdle == sc = ZeroScalar /\ sset = NoSet /\ sget = NoGet /\ sjs = NoJS
\* The simulator's registers in a new ModbusInstance: all zero, no
\* holding register written; no request handled yet.
CoilAddrs == 0..99
NewBank == [coils |-> [a \in CoilAddrs |-> FALSE], holdingReg |-> <<>>, uptime |-> 0]
NoReq == [UnitId |-> 0, Addr |-> 0, Quantity |-> 0, IsWrite |-> FALSE, Args |-> <<>>]
NoSim == [n |-> 0, h |-> "none", req |-> NoReq, res |-> <<>>, err |-> "nil",
          before |-> NewBank]
SimIdle == bank = NewBank /\ sim = NoSim

\* The registry at program start: no factory, no call made.
NoFactory == [Type |-> "", impl |-> 0]
NoLookup == [t |-> "", f |-> NoFactory, ok |-> FALSE, done |-> FALSE]
RegIdle == factories = <<>> /\ rlog = <<>> /\ rget = NoLookup

\* The auth_tokens table of a new database, no request in progress.
JTIs == {1, 2}
Conns == {1, 2}
NoTok == [exists |-> FALSE, typ |-> "", expiresAt |-> <<>>, revokedAt |-> <<>>,
          lastSeenAt |-> <<>>, idle |-> 0]
NoRequest == [pc |-> "idle", jti |-> 0, snap |-> NoTok, late |-> FALSE, res |-> "none",
             op |-> "none"]
AuthIdle ==
    /\ tok = [j \in JTIs |-> NoTok]
    /\ rq = [c \in Conns |-> NoRequest]
    /\ clock = 0
\* The channel table of a new database, SyncSerials not yet called.
NoSync == [done |-> FALSE, devices |-> <<>>, err |-> "nil", before |-> {}, n |-> 0]
SerIdle ==
    /\ chan = {}
    /\ nextId = 1
    /\ slog = NoSync
PureIdle == ValIdle /\ ScIdle /\ SimIdle /\ RegIdle /\ AuthIdle /\ SerIdle

\* ------------------------------------------------------ device type import
\* The type keys and point codes of the specs imported.
TypeKeys == {"T"}
Codes == {"A", "B"}

\* The fields of a point in a spec: rw as written, the Modbus quantity and
\* address; they stand for all the fields a PointSpec carries.
PointVals ==
    { [rw |-> "rw", quantity |-> 0, address |-> 1],
      [rw |-> "x", quantity |-> 2, address |-> 2] }

\* The specs: a type key, an English name and the points by code; a spec
\* without points is one ValidateSpec rejects.
TypeSpecs ==
    { [TypeKey |-> "T", NameEn |-> "n", Points |-> pts] :
        pts \in UNION { [cs -> PointVals] : cs \in SUBSET Codes } }

\* ValidateSpec: type_key, name_en and at least one point are required.
ValidateSpec(spec) ==
    /\ spec.TypeKey # ""
    /\ spec.NameEn # ""
    /\ DOMAIN spec.Points # {}

\* hex(sha256(json.Marshal(spec))): equal for equal specs only.
Checksum(spec) == <<"sha256", spec>>

\* normalizeRW: upper case, and R for anything but R, W, RW.
normalizeRW(v) ==
    CASE v \in {"r", "R"} -> "R"
      [] v \in {"w", "W"} -> "W"
      [] v \in {"rw", "RW"} -> "RW"
      [] OTHER -> "R"

\* defaultU16(v, def)
defaultU16(v, def) == IF v = 0 THEN def ELSE v

\* The columns of device_types, from the fields of DeviceType, and the
\* columns its upsert assigns on a conflict.
TypeColumns ==
    {"id", "type_key", "name", "vendor", "model", "version", "checksum",
     "created_at", "updated_at", "deleted_at"}
TypeDoUpdates ==
    {"name_en", "vendor", "model", "version", "checksum", "updated_at"}

\* The columns of device_type_points, from the fields of DeviceTypePoint,
\* and the columns its upsert assigns on a conflict.
PointColumns ==
    {"id", "type_key", "point_code", "point_kind", "vendor", "model",
     "name_i18n", "unit", "rw", "enabled", "fc", "address", "quantity",
     "data_type", "bit_index", "byte_order", "scale", "offset", "precision",
     "enum_map_json", "created_at", "updated_at", "deleted_at"}
PointDoUpdates ==
    {"point_kind", "vendor", "model", "name_i18n", "unit", "rw", "enabled",
     "fc", "address", "quantity", "data_type", "bit_index", "byte_order",
     "scale", "offset", "precision", "enum_map_json", "updated_at",
     "deleted_at"}

\* INSERT ... ON CONFLICT DO UPDATE SET c = excluded.c for c in assigned:
\* the statement is rejected when it names a column the table has not.
StatementOK(assigned, columns) == assigned \subseteq columns

\* No row under a key.
NoTypeRow == [id |-> 0, name |-> "", checksum |-> <<>>, deleted |-> FALSE]
NoPointRow == [id |-> 0, rw |-> "", quantity |-> 0, address |-> 0,
               enabled |-> FALSE, deleted |-> FALSE]

\* The tables after AutoMigrate: no rows.
EmptyTbl ==
    [types |-> [k \in TypeKeys |-> NoTypeRow],
     points |-> [kc \in TypeKeys \X Codes |-> NoPointRow]]

\* ------------------------------------------------------ worker instances
Ids == {"ch1"}
Keys == Types \X Ids

\* A ModbusInstance not yet constructed.
NoInst ==
    [typ |-> "none", id |-> "", cfg |-> ZeroCfg, init |-> FALSE,
     client |-> "nil", server1 |-> "nil", server2 |-> "nil",
     clientURL |-> NoURL, parentCtx |-> "nil", ctx |-> "nil", mu |-> 0,
     Working |-> FALSE, Linking |-> FALSE, PointsErrorRead |-> 0,
     leaked |-> FALSE]

\* ModbusFactory.New: a constructed instance, before Init.
NewInst(typ, id, raw) == [NoInst EXCEPT !.typ = typ, !.id = id, !.cfg = NewCfg(raw)]

\* A goroutine that is in no call.
IdleTh ==
    [pc |-> "idle", op |-> "none", ret |-> "idle", inst |-> 0, parent |-> "nil",
     key |-> <<"", "">>, raw |-> <<>>, newCfg |-> ZeroCfg, restart |-> FALSE,
     res |-> "none", ucInst |-> 0, intf |-> FALSE, wasInit |-> FALSE,
     spawn0 |-> 0, closed0 |-> 0]

\* Mutant of ParentErr: the parent is never seen as cancelled.
ParentErr_Never(p) == FALSE

\* ctx.Err() of a parent context: only the root is ever cancelled.
ParentErr(p) == p = "root" /\ rootCancelled

\* Mutant of CtxDone: the goroutine never sees its context cancelled.
CtxDone_Never(i) == FALSE

\* m.ctx.Done() is ready: the instance context or its parent is cancelled.
CtxDone(i) ==
    \/ inst[i].ctx = "cancelled"
    \/ inst[i].ctx = "live" /\ ParentErr(inst[i].parentCtx)

\* wg: the goroutines of i that have not called wg.Done().
Running(i) == { s \in Slots : poller[i][s] # "none" }

\* Mutant of wgZero: Close does not wait for the poller goroutine.
wgZero_NoWait(i) == TRUE

\* wg.Wait() returns: the counter is zero.
wgZero(i) == Running(i) = {}

FreeSlot(i) == CHOOSE s \in Slots : poller[i][s] = "none" /\
                   \A r \in Slots : poller[i][r] = "none" => s <= r

\* Another goroutine acted on instance i: every UpdateConfig in progress on i
\* by a goroutine other than u is no longer alone.
Mark(u, i, f) ==
    [x \in Threads |->
        IF x # u /\ f[x].ucInst = i THEN [f[x] EXCEPT !.intf = TRUE] ELSE f[x]]

\* The protocol object the poller opens: client (mbus) or server1 (cmbus).
ProtoField(i) == IF inst[i].typ = "mbus" THEN inst[i].client ELSE inst[i].server1

SetProto(r, v) == IF r.typ = "mbus" THEN [r EXCEPT !.client = v] ELSE [r EXCEPT !.server1 = v]

\* Mutant of Shut: Close() / Stop() leaves the protocol object as it is.
Shut_Leave(v) == v

\* Close() / Stop() of a protocol object: an open one becomes closed.
Shut(v) == IF v = "open" THEN "closed" ELSE v

\* A call returns res to its caller: the goroutine goes on at the place the
\* call was made from, or is idle again when the call was the top-level one.
Return(r, res) ==
    IF r.ret = "idle"
    THEN IdleTh
    ELSE [r EXCEPT !.pc = r.ret, !.ret = "idle", !.res = res]

\* ------------------------------------------------- ModbusInstance.Init
\* The instance after a successful Init: parent and env stored, URL and
\* defaults filled in, a child context derived, a protocol object built
\* from the configuration, init set.
InitFields(r, p) ==
    LET cfg1 == FillDefaults(r.typ, [r.cfg EXCEPT !.URL = URLOf(r.typ, r.cfg)])
        r1 == [r EXCEPT !.parentCtx = IF p = "nil" THEN "bg" ELSE p,
                        !.cfg = cfg1, !.ctx = "live"]
    IN  r1

\* The protocol object Init constructs, ok telling whether the constructor
\* succeeded: NewClient for mbus; for cmbus NewRTUServer into server1 on a
\* serial channel and NewServer into server2 otherwise.
InitProto(r, ok) ==
    IF r.typ = "mbus"
    THEN [r EXCEPT !.client = "closed", !.clientURL = r.cfg.URL,
                   !.leaked = r.leaked \/ r.client = "open"]
    ELSE IF r.cfg.PhysicalLink = "serial"
         THEN [r EXCEPT !.server1 = IF ok THEN "closed" ELSE "nil",
                        !.clientURL = r.cfg.URL,
                        !.leaked = r.leaked \/ r.server1 = "open"]
         ELSE [r EXCEPT !.server2 = "stopped", !.clientURL = r.cfg.URL]

\* Whether the constructor Init calls can fail: NewClient and NewServer fail
\* only on a scheme they do not know; NewRTUServer may fail on its device.
MayFail(r) == r.typ = "cmbus" /\ r.cfg.PhysicalLink = "serial"

\* Mutant of AlreadyInit: the check of m.init at the top of Init is missing.
AlreadyInit_Never(r) == FALSE

\* Init's first check: an initialised instance is left as it is.
AlreadyInit(r) == r.init

\* Init, from taking the instance mutex to releasing it.
InitStep(t) ==
    LET i == th[t].inst IN
    /\ ~panicked
    /\ ~exited
    /\ th[t].pc = "init_lock"
    /\ inst[i].mu = 0
    /\ IF AlreadyInit(inst[i])
       THEN /\ th' = Mark(t, i, [th EXCEPT ![t] = Return(th[t], "nil")])
            /\ noop' = "Init"
            /\ UNCHANGED <<inst, poller, nSpawn>>
       ELSE \E ok \in BOOLEAN :
            LET r1 == InitFields(inst[i], th[t].parent)
                good == IF MayFail(r1) THEN ok ELSE SchemeOK(r1.cfg.URL)
            IN  /\ (~MayFail(r1)) => ok
                /\ IF ~good
                   THEN /\ inst' = [inst EXCEPT ![i] =
                                IF MayFail(r1) THEN InitProto(r1, FALSE) ELSE r1]
                        /\ th' = Mark(t, i, [th EXCEPT ![t] = Return(th[t], "err")])
                        /\ UNCHANGED <<poller, nSpawn, noop>>
                   ELSE /\ \E s \in Slots : poller[i][s] = "none"
                        /\ inst' = [inst EXCEPT ![i] =
                                [InitProto(r1, TRUE) EXCEPT !.init = TRUE]]
                        /\ poller' = [poller EXCEPT ![i][FreeSlot(i)] = "top"]
                        /\ nSpawn' = [nSpawn EXCEPT ![i] = @ + 1]
                        /\ th' = Mark(t, i, [th EXCEPT ![t] = Return(th[t], "nil")])
                        /\ UNCHANGED noop
    /\ UNCHANGED <<impVars, pureVars, exited, ucKept, rootCancelled, panicked, calls, mgrVars, nClosed>>

\* ------------------------------------------------ ModbusInstance.Close
\* Mutant of NotInit: Close goes on whether the instance is initialised or not.
NotInit_Never(r) == FALSE

\* Close's first check: if !m.init { return nil }
NotInit(r) == ~r.init

\* Close up to wg.Wait(): take the mutex, return at once when not
\* initialised, otherwise cancel the instance context and keep the mutex.
CloseLock(t) ==
    LET i == th[t].inst IN
    /\ ~panicked
    /\ ~exited
    /\ th[t].pc = "close_lock"
    /\ inst[i].mu = 0
    /\ IF NotInit(inst[i])
       THEN /\ th' = Mark(t, i, [th EXCEPT ![t] = Return(th[t], "nil")])
            /\ noop' = "Close"
            /\ UNCHANGED inst
       ELSE /\ inst' = [inst EXCEPT ![i].mu = t,
                                    ![i].ctx = IF @ = "nil" THEN @ ELSE "cancelled"]
            /\ th' = Mark(t, i, [th EXCEPT ![t].pc = "close_wait"])
            /\ UNCHANGED noop
    /\ UNCHANGED <<impVars, pureVars, exited, ucKept, poller, rootCancelled, panicked, calls, mgrVars, nSpawn, nClosed>>

\* Mutant of CloseFields: Close forgets to reset init.
CloseFields_KeepInit(r) == [SetProto(r, "nil") EXCEPT !.ctx = "nil", !.mu = 0]

\* The fields Close writes after wg.Wait(): the protocol object is closed
\* and dropped (mbus: client; cmbus: server1 only), ctx and init are reset.
CloseFields(r) ==
    [SetProto(r, "nil") EXCEPT !.ctx = "nil", !.init = FALSE, !.mu = 0]

\* Close from wg.Wait() on: waits until every poller goroutine has exited.
CloseWait(t) ==
    LET i == th[t].inst IN
    /\ ~panicked
    /\ ~exited
    /\ th[t].pc = "close_wait"
    /\ wgZero(i)
    /\ inst' = [inst EXCEPT ![i] = CloseFields(inst[i])]
    /\ nClosed' = [nClosed EXCEPT ![i] = @ + 1]
    /\ th' = Mark(t, i, [th EXCEPT ![t] = Return(th[t], "nil")])
    /\ UNCHANGED <<impVars, pureVars, exited, ucKept, noop, poller, rootCancelled, panicked, calls, mgrVars, nSpawn>>

\* ----------------------------------------- ModbusInstance.UpdateConfig
\* The configuration UpdateConfig compares and stores: raw when it holds a
\* value, the current one otherwise, with the defaults filled in.
UpdCfg(r, raw) == FillDefaults(r.typ, IF Len(raw) = 0 THEN r.cfg ELSE raw[1])

\* Mutant of NeedRestart: every UpdateConfig restarts.
NeedRestart_Always(r, raw) == TRUE

\* needRestart: any field differs from the stored configuration.
NeedRestart(r, raw) == UpdCfg(r, raw) # r.cfg

\* UpdateConfig while it holds the mutex: stores the new configuration,
\* captures the parent, and decides whether to restart.
UCLock(t) ==
    LET i == th[t].inst
        nc == UpdCfg(inst[i], th[t].raw)
        rs == NeedRestart(inst[i], th[t].raw)
        me == [th[t] EXCEPT !.newCfg = nc, !.restart = rs, !.raw = <<>>,
                            !.parent = inst[i].parentCtx, !.ucInst = i,
                            !.intf = FALSE, !.wasInit = inst[i].init,
                            !.spawn0 = nSpawn[i],
                            !.closed0 = nClosed[i]]
    IN
    /\ ~panicked
    /\ ~exited
    /\ th[t].pc = "uc_lock"
    /\ inst[i].mu = 0
    /\ inst' = [inst EXCEPT ![i].cfg = nc]
    /\ ucKept' = (ucKept \/ (inst[i].init /\ ~rs))
    /\ UNCHANGED noop
    /\ th' = Mark(t, i, [th EXCEPT ![t] =
                IF rs THEN [me EXCEPT !.pc = "close_lock", !.ret = "uc_check"]
                      ELSE Return(me, "nil")])
    /\ UNCHANGED <<impVars, pureVars, exited, poller, rootCancelled, panicked, calls, mgrVars, nSpawn, nClosed>>

\* UpdateConfig after Close returned: skip the restart when the captured
\* parent is cancelled, otherwise call Init with it.
UCCheck(t) ==
    LET p == IF th[t].parent = "nil" THEN "bg" ELSE th[t].parent IN
    /\ ~panicked
    /\ ~exited
    /\ th[t].pc = "uc_check"
    /\ th' = [th EXCEPT ![t] =
                IF ParentErr(p) THEN Return(th[t], "err")
                ELSE [th[t] EXCEPT !.pc = "init_lock", !.parent = p, !.ret = "idle"]]
    /\ UNCHANGED <<impVars, pureVars, exited, ucKept, noop, inst, poller, rootCancelled, panicked, calls, mgrVars, nSpawn, nClosed>>

\* ---------------------------------------------- ModbusInstance.runPoller
\* A goroutine of i leaves runPoller: wg.Done().
Exit(i, s) == [poller EXCEPT ![i][s] = "none"]

\* Top of the outer loop: leave when the context is done, otherwise set
\* Working, clear Linking and go on to open the transport.
PollerTop(i, s) ==
    /\ ~panicked
    /\ ~exited
    /\ poller[i][s] = "top"
    /\ IF inst[i].ctx = "nil"
       THEN panicked' = TRUE /\ UNCHANGED <<inst, poller>>
       ELSE /\ UNCHANGED panicked
            /\ IF CtxDone(i)
               THEN poller' = Exit(i, s) /\ UNCHANGED inst
               ELSE /\ poller' = [poller EXCEPT ![i][s] = "opening"]
                    /\ inst' = [inst EXCEPT ![i].Working = TRUE, ![i].Linking = FALSE]
    /\ UNCHANGED <<impVars, pureVars, exited, ucKept, noop, th, rootCancelled, calls, mgrVars, nSpawn, nClosed>>

\* m.client.Open() (mbus) or m.server1.Start() (cmbus) returns: connected,
\* or failed.  A nil protocol object is a nil dereference.
PollerOpen(i, s) ==
    /\ ~panicked
    /\ ~exited
    /\ poller[i][s] = "opening"
    /\ IF ProtoField(i) = "nil"
       THEN panicked' = TRUE /\ UNCHANGED <<inst, poller>>
       ELSE /\ UNCHANGED panicked
            /\ \E ok \in BOOLEAN :
                IF ok
                THEN /\ inst' = [inst EXCEPT ![i] =
                            [SetProto(inst[i], "open") EXCEPT !.Linking = TRUE]]
                     /\ poller' = [poller EXCEPT ![i][s] = "tick"]
                ELSE /\ poller' = [poller EXCEPT ![i][s] = "backoff_open"]
                     /\ UNCHANGED inst
    /\ UNCHANGED <<impVars, pureVars, exited, ucKept, noop, th, rootCancelled, calls, mgrVars, nSpawn, nClosed>>

\* sleepWithContext(m.ctx, 2s): false when the context is done, true when
\* the timer fires; the loop goes back to its top on true.
PollerSleep(i, s) ==
    /\ ~panicked
    /\ ~exited
    /\ poller[i][s] \in {"backoff_open", "backoff_read", "backoff_exc"}
    /\ \/ CtxDone(i) /\ poller' = Exit(i, s)
       \/ poller' = [poller EXCEPT ![i][s] = "top"]
    /\ UNCHANGED <<impVars, pureVars, exited, ucKept, noop, inst, th, rootCancelled, panicked, calls, mgrVars, nSpawn, nClosed>>

\* The select of the inner loop, context branch: stop the ticker, close the
\* protocol object and leave.
PollerCancel(i, s) ==
    /\ ~panicked
    /\ ~exited
    /\ poller[i][s] = "tick"
    /\ CtxDone(i)
    /\ inst' = [inst EXCEPT ![i] = SetProto(inst[i], Shut(ProtoField(i)))]
    /\ poller' = Exit(i, s)
    /\ UNCHANGED <<impVars, pureVars, exited, ucKept, noop, th, rootCancelled, panicked, calls, mgrVars, nSpawn, nClosed>>

\* The select of the inner loop, ticker branch: mbus sends a read request;
\* cmbus only logs.
PollerTick(i, s) ==
    /\ ~panicked
    /\ ~exited
    /\ poller[i][s] = "tick"
    /\ poller' = [poller EXCEPT ![i][s] = IF inst[i].typ = "mbus" THEN "reading" ELSE "tick"]
    /\ UNCHANGED <<impVars, pureVars, exited, ucKept, noop, inst, th, rootCancelled, panicked, calls, mgrVars, nSpawn, nClosed>>

\* What ReadRegisters returns: values, a Modbus exception response of the
\* device (illegal data address, ...), or a transport error.
ReadResults == {"ok", "exception", "transport"}

\* Mutant of AfterReadErr: the goroutine stays in the inner loop.
AfterReadErr_Stay(res) == "tick"

\* Where the goroutine is after `if err != nil`: in the 2 s back-off, for
\* either kind of error; the kind of err is kept in the name.
AfterReadErr(res) == IF res = "exception" THEN "backoff_exc" ELSE "backoff_read"

\* m.client.ReadRegisters returns: values, or an error (of any kind), on
\* which the client is closed and the goroutine backs off.
PollerRead(i, s) ==
    /\ ~panicked
    /\ ~exited
    /\ poller[i][s] = "reading"
    /\ \E res \in ReadResults :
        IF res = "ok"
        THEN /\ poller' = [poller EXCEPT ![i][s] = "tick"]
             /\ UNCHANGED inst
        ELSE /\ inst' = [inst EXCEPT ![i] = SetProto(inst[i], Shut(ProtoField(i)))]
             /\ poller' = [poller EXCEPT ![i][s] = AfterReadErr(res)]
    /\ UNCHANGED <<impVars, pureVars, exited, ucKept, noop, th, rootCancelled, panicked, calls, mgrVars, nSpawn, nClosed>>

\* rootCancel(): the signal handler cancels the root context.
CancelRoot ==
    /\ ~panicked
    /\ ~exited
    /\ ~rootCancelled
    /\ rootCancelled' = TRUE
    /\ UNCHANGED <<impVars, pureVars, exited, ucKept, noop, inst, poller, th, panicked, calls, mgrVars, nSpawn, nClosed>>

\* ------------------------------------------- callers of one instance
\* A goroutine calls Init(parent, env) on instance i.
CallInit(t, i, p) ==
    /\ ~panicked
    /\ ~exited
    /\ th[t].pc = "idle"
    /\ calls < MaxCalls
    /\ inst[i].typ # "none"
    /\ th' = [th EXCEPT ![t] = [IdleTh EXCEPT !.pc = "init_lock", !.op = "Init",
                                              !.inst = i, !.parent = p]]
    /\ calls' = calls + 1
    /\ UNCHANGED <<impVars, pureVars, exited, ucKept, noop, inst, poller, rootCancelled, panicked, mgrVars, nSpawn, nClosed>>

\* A goroutine calls Close() on instance i.
CallClose(t, i) ==
    /\ ~panicked
    /\ ~exited
    /\ th[t].pc = "idle"
    /\ calls < MaxCalls
    /\ inst[i].typ # "none"
    /\ th' = [th EXCEPT ![t] = [IdleTh EXCEPT !.pc = "close_lock", !.op = "Close",
                                              !.inst = i]]
    /\ calls' = calls + 1
    /\ UNCHANGED <<impVars, pureVars, exited, ucKept, noop, inst, poller, rootCancelled, panicked, mgrVars, nSpawn, nClosed>>

\* A goroutine calls UpdateConfig(raw) on instance i.
CallUpdateConfig(t, i, raw) ==
    /\ ~panicked
    /\ ~exited
    /\ th[t].pc = "idle"
    /\ calls < MaxCalls
    /\ inst[i].typ # "none"
    /\ th' = [th EXCEPT ![t] = [IdleTh EXCEPT !.pc = "uc_lock", !.op = "UpdateConfig",
                                              !.inst = i, !.raw = raw]]
    /\ calls' = calls + 1
    /\ UNCHANGED <<impVars, pureVars, exited, ucKept, noop, inst, poller, rootCancelled, panicked, mgrVars, nSpawn, nClosed>>

\* The steps of the instance methods and of the poller goroutines.
InstStep ==
    \/ \E t \in Threads : InitStep(t)
    \/ \E t \in Threads : CloseLock(t)
    \/ \E t \in Threads : CloseWait(t)
    \/ \E t \in Threads : UCLock(t)
    \/ \E t \in Threads : UCCheck(t)
    \/ \E i \in Insts, s \in Slots : PollerTop(i, s)
    \/ \E i \in Insts, s \in Slots : PollerOpen(i, s)
    \/ \E i \in Insts, s \in Slots : PollerSleep(i, s)
    \/ \E i \in Insts, s \in Slots : PollerCancel(i, s)
    \/ \E i \in Insts, s \in Slots : PollerTick(i, s)
    \/ \E i \in Insts, s \in Slots : PollerRead(i, s)
    \/ CancelRoot

\* ------------------------------------------------ one worker instance
\* One instance, constructed by its factory and not yet initialised, and
\* goroutines that call its methods directly.
InitW ==
    /\ \E typ \in Types : \E raw \in RawCfgs(typ) :
         inst = [i \in Insts |-> IF i = 1 THEN NewInst(typ, "ch1", raw) ELSE NoInst]
    /\ poller = [i \in Insts |-> [s \in Slots |-> "none"]]
    /\ th = [t \in Threads |-> IdleTh]
    /\ rootCancelled = FALSE
    /\ panicked = FALSE
    /\ exited = FALSE
    /\ calls = 0
    /\ instances = [k \in Keys |-> 0]
    /\ mgrMu = 0
    /\ nDaDel = [k \in Keys |-> 0]
    /\ nSpawn = [i \in Insts |-> 0]
    /\ nClosed = [i \in Insts |-> 0]
    /\ nCreate = [k \in Keys |-> 0]
    /\ nDestroy = [k \in Keys |-> 0]
    /\ destroyed = {}
    /\ merr = "none"
    /\ da = [t \in Threads |-> NoDa]
    /\ ucKept = FALSE
    /\ noop = "none"
    /\ tbl = EmptyTbl
    /\ uuids = 0
    /\ hist = <<>>
    /\ PureIdle

NextW ==
    \/ \E t \in Threads, p \in {"nil", "root"} : CallInit(t, 1, p)
    \/ \E t \in Threads : CallClose(t, 1)
    \/ \E t \in Threads : \E raw \in RawCfgs(inst[1].typ) : CallUpdateConfig(t, 1, raw)
    \/ InstStep

SpecW == InitW /\ [][NextW]_vars

\* A goroutine inside an instance method takes its next step when it can:
\* the mutex is granted once free, wg.Wait returns once the counter is zero.
ThreadStep(t) ==
    InitStep(t) \/ CloseLock(t) \/ CloseWait(t) \/ UCLock(t) \/ UCCheck(t)

\* A poller goroutine goes on: Open, ReadRegisters and the sleep return,
\* the ticker fires.
PollerStep(i, s) ==
    \/ PollerTop(i, s) \/ PollerOpen(i, s) \/ PollerSleep(i, s)
    \/ PollerTick(i, s) \/ PollerRead(i, s)

\* Scheduling: every goroutine that can run does run, and a select whose
\* ctx.Done() case is ready again and again ends up taking it.
Fairness ==
    /\ \A t \in Threads : WF_vars(ThreadStep(t))
    /\ \A i \in Insts, s \in Slots :
          WF_vars(PollerStep(i, s)) /\ SF_vars(PollerCancel(i, s))

FairSpecW == SpecW /\ Fairness

\* ------------------------------------------------------ InstanceManager
\* The instance objects no factory has constructed yet.
Unused == { i \in Insts : inst[i].typ = "none" }

\* Create(typ, id, cfg) up to the call of Init: the factory constructs a
\* new instance; the parent context is the manager's root context.
CallCreate(t, k, raw) ==
    /\ ~panicked
    /\ ~exited
    /\ th[t].pc = "idle"
    /\ calls < MaxOps
    /\ Unused # {}
    /\ LET i == CHOOSE x \in Unused : \A y \in Unused : x <= y IN
       /\ inst' = [inst EXCEPT ![i] = NewInst(k[1], k[2], raw)]
       /\ th' = [th EXCEPT ![t] = [IdleTh EXCEPT !.pc = "init_lock", !.op = "Create",
                                                 !.ret = "cr_store", !.inst = i,
                                                 !.parent = "root", !.key = k]]
    /\ calls' = calls + 1
    /\ UNCHANGED <<impVars, pureVars, exited, ucKept, noop, poller, rootCancelled, panicked, mgrVars, nSpawn, nClosed>>

\* The (typ, id) pairs Create refuses at once: an empty type, an empty id,
\* a type no factory is registered for.
BadKeys == {<<"", "ch1">>, <<"mbus", "">>, <<"goose", "ch1">>}

\* Mutant of CreateRejected: the instance object is constructed before the
\* arguments are checked.
CreateRejected_Builds(t, k) ==
    /\ ~panicked
    /\ ~exited
    /\ th[t].pc = "idle"
    /\ calls < MaxOps
    /\ Unused # {}
    /\ inst' = [inst EXCEPT ![CHOOSE x \in Unused : TRUE] = NewInst(k[1], k[2], <<>>)]
    /\ merr' = "Create"
    /\ calls' = calls + 1
    /\ UNCHANGED <<impVars, pureVars, exited, ucKept, noop, poller, th, rootCancelled, panicked, instances, mgrMu,
                   nDaDel, nCreate, nDestroy, destroyed, da, nSpawn, nClosed>>

\* Create(typ, id, cfg) with typ == "" || id == "", or with a type
\* pluginapi.GetFactory does not know: the error is returned before
\* anything is constructed.
CreateRejected(t, k) ==
    /\ ~panicked
    /\ ~exited
    /\ th[t].pc = "idle"
    /\ calls < MaxOps
    /\ k[1] = "" \/ k[2] = "" \/ k[1] \notin Types
    /\ merr' = "Create"
    /\ calls' = calls + 1
    /\ UNCHANGED <<impVars, pureVars, exited, ucKept, noop, inst, poller, th, rootCancelled, panicked, instances, mgrMu,
                   nDaDel, nCreate, nDestroy, destroyed, da, nSpawn, nClosed>>

\* Mutant of InitFailed: Create ignores the error Init returned.
InitFailed_Ignored(r) == FALSE

\* if err := inst.Init(ctx, m.env); err != nil
InitFailed(r) == r.res = "err"

\* Create after Init returned: an error is returned as it is; otherwise the
\* instance is stored under (typ, id) with the manager lock held.
CrStore(t) ==
    /\ ~panicked
    /\ ~exited
    /\ th[t].pc = "cr_store"
    /\ IF InitFailed(th[t])
       THEN UNCHANGED <<instances, nCreate>>
       ELSE /\ mgrMu = 0
            /\ instances' = [instances EXCEPT ![th[t].key] = th[t].inst]
            /\ nCreate' = [nCreate EXCEPT ![th[t].key] = @ + 1]
    /\ th' = [th EXCEPT ![t] = IdleTh]
    /\ UNCHANGED <<impVars, pureVars, exited, ucKept, noop, inst, poller, rootCancelled, panicked, calls, mgrMu, nDaDel,
                   nDestroy, destroyed, da, merr, nSpawn, nClosed>>

\* A goroutine calls Update(typ, id, cfg).
CallUpdate(t, k, raw) ==
    /\ ~panicked
    /\ ~exited
    /\ th[t].pc = "idle"
    /\ calls < MaxOps
    /\ th' = [th EXCEPT ![t] = [IdleTh EXCEPT !.pc = "up_lookup", !.op = "Update",
                                              !.key = k, !.raw = raw]]
    /\ calls' = calls + 1
    /\ UNCHANGED <<impVars, pureVars, exited, ucKept, noop, inst, poller, rootCancelled, panicked, mgrVars, nSpawn, nClosed>>

\* Update: the lookup under the read lock, then UpdateConfig on what it found.
UpLookup(t) ==
    /\ ~panicked
    /\ ~exited
    /\ th[t].pc = "up_lookup"
    /\ mgrMu = 0
    /\ th' = [th EXCEPT ![t] =
                IF instances[th[t].key] = 0 THEN IdleTh
                ELSE [th[t] EXCEPT !.pc = "uc_lock", !.inst = instances[th[t].key]]]
    /\ merr' = IF instances[th[t].key] = 0 THEN "Update" ELSE merr
    /\ UNCHANGED <<impVars, pureVars, exited, ucKept, noop, inst, poller, rootCancelled, panicked, calls, instances, mgrMu,
                   nDaDel, nCreate, nDestroy, destroyed, da, nSpawn, nClosed>>

\* A goroutine calls Destroy(typ, id).
CallDestroy(t, k) ==
    /\ ~panicked
    /\ ~exited
    /\ th[t].pc = "idle"
    /\ calls < MaxOps
    /\ th' = [th EXCEPT ![t] = [IdleTh EXCEPT !.pc = "ds_lock", !.op = "Destroy",
                                              !.key = k]]
    /\ calls' = calls + 1
    /\ UNCHANGED <<impVars, pureVars, exited, ucKept, noop, inst, poller, rootCancelled, panicked, mgrVars, nSpawn, nClosed>>

\* Destroy: take the manager lock, look the instance up, and call its Close
\* with the lock held; an unknown key returns an error.
DsLock(t) ==
    /\ ~panicked
    /\ ~exited
    /\ th[t].pc = "ds_lock"
    /\ mgrMu = 0
    /\ IF instances[th[t].key] = 0
       THEN th' = [th EXCEPT ![t] = IdleTh] /\ merr' = "Destroy" /\ UNCHANGED mgrMu
       ELSE /\ mgrMu' = t
            /\ th' = [th EXCEPT ![t] = [th[t] EXCEPT !.pc = "close_lock",
                                                     !.ret = "ds_delete",
                                                     !.inst = instances[th[t].key]]]
            /\ UNCHANGED merr
    /\ UNCHANGED <<impVars, pureVars, exited, ucKept, noop, inst, poller, rootCancelled, panicked, calls, instances, nDaDel,
                   nCreate, nDestroy, destroyed, da, nSpawn, nClosed>>

\* Destroy after Close returned nil: delete the entry, release the lock.
DsDelete(t) ==
    /\ ~panicked
    /\ ~exited
    /\ th[t].pc = "ds_delete"
    /\ instances' = [instances EXCEPT ![th[t].key] = 0]
    /\ mgrMu' = 0
    /\ nDestroy' = [nDestroy EXCEPT ![th[t].key] = @ + 1]
    /\ destroyed' = destroyed \cup {th[t].inst}
    /\ th' = [th EXCEPT ![t] = IdleTh]
    /\ UNCHANGED <<impVars, pureVars, exited, ucKept, noop, inst, poller, rootCancelled, panicked, calls, nDaDel, nCreate,
                   merr, da, nSpawn, nClosed>>

\* A goroutine calls DestroyAll().
CallDestroyAll(t) ==
    /\ ~panicked
    /\ ~exited
    /\ th[t].pc = "idle"
    /\ calls < MaxOps
    /\ th' = [th EXCEPT ![t] = [IdleTh EXCEPT !.pc = "da_lock", !.op = "DestroyAll"]]
    /\ calls' = calls + 1
    /\ UNCHANGED <<impVars, pureVars, exited, ucKept, noop, inst, poller, rootCancelled, panicked, mgrVars, nSpawn, nClosed>>

\* DestroyAll takes the manager lock.
DaLock(t) ==
    /\ ~panicked
    /\ ~exited
    /\ th[t].pc = "da_lock"
    /\ mgrMu = 0
    /\ mgrMu' = t
    /\ da' = [da EXCEPT ![t] = [seen |-> {instances[k] : k \in Keys} \ {0}, closed |-> {}]]
    /\ th' = [th EXCEPT ![t].pc = "da_loop"]
    /\ UNCHANGED <<impVars, pureVars, exited, ucKept, noop, inst, poller, rootCancelled, panicked, calls, instances, nDaDel,
                   nCreate, nDestroy, destroyed, merr, nSpawn, nClosed>>

\* Mutant of DaLoop: the range stops after the first entry.
DaLoop_Once(t) ==
    /\ ~panicked
    /\ ~exited
    /\ th[t].pc = "da_loop"
    /\ IF da[t].closed # {} \/ \A k \in Keys : instances[k] = 0
       THEN /\ mgrMu' = 0
            /\ th' = [th EXCEPT ![t] = IdleTh]
       ELSE /\ \E k \in Keys :
                /\ instances[k] # 0
                /\ th' = [th EXCEPT ![t] = [th[t] EXCEPT !.pc = "close_lock",
                                                         !.ret = "da_del", !.key = k,
                                                         !.inst = instances[k]]]
            /\ UNCHANGED mgrMu
    /\ UNCHANGED <<impVars, pureVars, exited, ucKept, noop, inst, poller, rootCancelled, panicked, calls, instances, nDaDel,
                   nCreate, nDestroy, destroyed, da, merr, nSpawn, nClosed>>

\* DestroyAll's range over the map, in no particular order: call Close on
\* an entry that is left, or release the lock when none is.
DaLoop(t) ==
    /\ ~panicked
    /\ ~exited
    /\ th[t].pc = "da_loop"
    /\ IF \A k \in Keys : instances[k] = 0
       THEN /\ mgrMu' = 0
            /\ th' = [th EXCEPT ![t] = IdleTh]
       ELSE /\ \E k \in Keys :
                /\ instances[k] # 0
                /\ th' = [th EXCEPT ![t] = [th[t] EXCEPT !.pc = "close_lock",
                                                         !.ret = "da_del", !.key = k,
                                                         !.inst = instances[k]]]
            /\ UNCHANGED mgrMu
    /\ UNCHANGED <<impVars, pureVars, exited, ucKept, noop, inst, poller, rootCancelled, panicked, calls, instances, nDaDel,
                   nCreate, nDestroy, destroyed, da, merr, nSpawn, nClosed>>

\* DestroyAll after Close returned: delete the entry and go on.
DaDel(t) ==
    /\ ~panicked
    /\ ~exited
    /\ th[t].pc = "da_del"
    /\ instances' = [instances EXCEPT ![th[t].key] = 0]
    /\ da' = [da EXCEPT ![t].closed = @ \cup {th[t].inst}]
    /\ nDaDel' = [nDaDel EXCEPT ![th[t].key] = @ + 1]
    /\ th' = [th EXCEPT ![t] = [th[t] EXCEPT !.pc = "da_loop", !.inst = 0,
                                             !.key = IdleTh.key]]
    /\ UNCHANGED <<impVars, pureVars, exited, ucKept, noop, inst, poller, rootCancelled, panicked, calls, mgrMu, nCreate,
                   nDestroy, destroyed, merr, nSpawn, nClosed>>

\* The steps inside the manager's operations.
MgrStep ==
    \/ \E t \in Threads : CrStore(t)
    \/ \E t \in Threads : UpLookup(t)
    \/ \E t \in Threads : DsLock(t)
    \/ \E t \in Threads : DsDelete(t)
    \/ \E t \in Threads : DaLock(t)
    \/ \E t \in Threads : DaLoop(t)
    \/ \E t \in Threads : DaDel(t)

\* The fields of a new manager and the tables after migration.
InitM0 ==
    /\ inst = [i \in Insts |-> NoInst]
    /\ poller = [i \in Insts |-> [s \in Slots |-> "none"]]
    /\ th = [t \in Threads |-> IdleTh]
    /\ rootCancelled = FALSE
    /\ panicked = FALSE
    /\ exited = FALSE
    /\ calls = 0
    /\ instances = [k \in Keys |-> 0]
    /\ mgrMu = 0
    /\ nDaDel = [k \in Keys |-> 0]
    /\ nSpawn = [i \in Insts |-> 0]
    /\ nClosed = [i \in Insts |-> 0]
    /\ nCreate = [k \in Keys |-> 0]
    /\ nDestroy = [k \in Keys |-> 0]
    /\ destroyed = {}
    /\ merr = "none"
    /\ da = [t \in Threads |-> NoDa]
    /\ ucKept = FALSE
    /\ noop = "none"
    /\ tbl = EmptyTbl
    /\ uuids = 0
    /\ hist = <<>>

\* NewInstanceManager(rootCtx, env): no instance yet.
InitM ==
    /\ InitM0
    /\ PureIdle

NextM ==
    \/ \E t \in Threads, k \in Keys : \E raw \in CreateCfgs(k[1]) : CallCreate(t, k, raw)
    \/ \E t \in Threads, k \in BadKeys : CreateRejected(t, k)
    \/ \E t \in Threads, k \in Keys : \E raw \in UpdateCfgs(k[1]) : CallUpdate(t, k, raw)
    \/ \E t \in Threads, k \in Keys : CallDestroy(t, k)
    \/ \E t \in Threads : CallDestroyAll(t)
    \/ MgrStep
    \/ InstStep

SpecM == InitM /\ [][NextM]_vars

\* ------------------------------------------------------- server process
\* wg.Wait() in the signal handler: the server's WaitGroup is handed to the
\* plugins in HostEnv.WG, and no code calls Add on it.
HostWGZero == TRUE

\* What the signal handler waits for between rootCancel() and os.Exit(0).
ExitReady == rootCancelled /\ HostWGZero

\* The signal handler after rootCancel(): wg.Wait(), RemovePidFile,
\* logger.Close() and os.Exit(0), which ends every goroutine where it is and
\* runs no deferred call.
SigExit ==
    /\ ~panicked
    /\ ~exited
    /\ ExitReady
    /\ exited' = TRUE
    /\ UNCHANGED <<impVars, pureVars, ucKept, noop, inst, poller, th, rootCancelled, panicked, calls, mgrVars,
                   nSpawn, nClosed>>

\* The main goroutine of the server.
Main == 1

\* A new manager on the root context, no instance yet.
InitSrv == InitM

\* The server: the main goroutine creates the instances of the channels and
\* then blocks in select {}; the signal handler cancels the root context and
\* exits.  Nothing calls Update or Destroy, and the deferred DestroyAll is
\* never reached.
NextSrv ==
    \/ \E k \in Keys : \E raw \in CreateCfgs(k[1]) : CallCreate(Main, k, raw)
    \/ InitStep(Main)
    \/ CrStore(Main)
    \/ \E i \in Insts, s \in Slots : PollerTop(i, s)
    \/ \E i \in Insts, s \in Slots : PollerOpen(i, s)
    \/ \E i \in Insts, s \in Slots : PollerSleep(i, s)
    \/ \E i \in Insts, s \in Slots : PollerCancel(i, s)
    \/ \E i \in Insts, s \in Slots : PollerTick(i, s)
    \/ \E i \in Insts, s \in Slots : PollerRead(i, s)
    \/ CancelRoot
    \/ SigExit

SpecSrv == InitSrv /\ [][NextSrv]_vars

\* ------------------------------------------------------------ auth tokens
\* A *time.Time column is <<>> for NULL and <<t>> for the time t.  Every
\* token belongs to the one user of the model.
MaxTime == 4

\* Config.WebIdleTimeout() in the clock's unit; the loader makes it positive.
IdleTimeout == 2

\* The handlers behind AuthMiddleware that matter to a token, and any other.
HandlerOps == {"Logout", "ChangeMyPassword", "RevokeMyAllTokens", "Other"}

authFrame == <<wmVars, impVars, valVars, scVars, simVars, regVars, serVars>>

\* Time passes.
Tick ==
    /\ clock < MaxTime
    /\ clock' = clock + 1
    /\ UNCHANGED <<authFrame, tok, rq>>

\* LoginWeb with valid credentials: a row for a fresh jti, type web,
\* last_seen_at now, the configured idle timeout, no expiry.
LoginWeb(j) ==
    /\ ~tok[j].exists
    /\ tok' = [tok EXCEPT ![j] = [exists |-> TRUE, typ |-> "web", expiresAt |-> <<>>,
                                   revokedAt |-> <<>>, lastSeenAt |-> <<clock>>,
                                   idle |-> IdleTimeout]]
    /\ UNCHANGED <<authFrame, rq, clock>>

\* AuthMiddleware up to db.Where("jti = ?").First(&t): a request bearing the
\* JWT of token j arrives on connection c and reads the row.
Lookup(c, j) ==
    /\ rq[c].pc = "idle"
    /\ tok[j].exists
    /\ rq' = [rq EXCEPT ![c] = [pc |-> "found", jti |-> j, snap |-> tok[j],
                                 late |-> tok[j].revokedAt # <<>>, res |-> "none",
                                 op |-> "none"]]
    /\ UNCHANGED <<authFrame, tok, clock>>

\* Mutant of Verdict: a session idle for exactly the timeout is expired.
Verdict_AtLeast(t, n) ==
    IF t.revokedAt # <<>> THEN "token revoked"
    ELSE IF t.lastSeenAt # <<>> /\ n - t.lastSeenAt[1] >= t.idle THEN "session expired (idle)"
    ELSE "ok"

\* The checks AuthMiddleware makes on the row t it has read, at time n.
Verdict(t, n) ==
    IF t.revokedAt # <<>> THEN "token revoked"
    ELSE IF t.expiresAt # <<>> /\ n > t.expiresAt[1] THEN "token expired"
    ELSE IF t.typ # "web" THEN "ok"
    ELSE IF t.lastSeenAt = <<>> THEN "session invalid"
    ELSE IF t.idle > 0 /\ n - t.lastSeenAt[1] > t.idle THEN "session expired (idle)"
    ELSE "ok"

\* Mutant of Touch: the row read earlier is written back whole.
Touch_Save(row, t, n) == [t EXCEPT !.lastSeenAt = <<n>>]

\* db.Model(&t).Updates(map{"last_seen_at": &now}): one column of the
\* stored row changes.
Touch(row, t, n) == [row EXCEPT !.lastSeenAt = <<n>>]

\* AuthMiddleware after the read: reject on the row read, revoke a web
\* session idle for too long, otherwise move last_seen_at and call the
\* handler.
Check(c) ==
    LET t == rq[c].snap
        j == rq[c].jti
        v == Verdict(t, clock)
    IN  /\ rq[c].pc = "found"
        /\ tok' = IF v = "session expired (idle)"
                  THEN [tok EXCEPT ![j].revokedAt = <<clock>>]
                  ELSE IF v = "ok" /\ t.typ = "web"
                       THEN [tok EXCEPT ![j] = Touch(tok[j], t, clock)]
                       ELSE tok
        /\ IF v = "ok"
           THEN \E op \in HandlerOps :
                   rq' = [rq EXCEPT ![c].pc = "handler", ![c].op = op, ![c].snap = NoTok]
           ELSE rq' = [rq EXCEPT ![c].pc = "idle", ![c].res = v, ![c].snap = NoTok]
        /\ UNCHANGED <<authFrame, clock>>

\* UPDATE auth_tokens SET revoked_at = n WHERE <sel> AND revoked_at IS NULL.
RevokeWhere(sel, n) ==
    [j \in JTIs |-> IF j \in sel /\ tok[j].exists /\ tok[j].revokedAt = <<>>
                    THEN [tok[j] EXCEPT !.revokedAt = <<n>>]
                    ELSE tok[j]]

\* The handler behind the middleware.  Logout revokes the request's token,
\* RevokeMyAllTokens every token of the user.  ChangeMyPassword binds the
\* body into a copy of its request struct, finds the passwords empty and
\* answers 400 before it reads or writes the database.
Handler(c) ==
    /\ rq[c].pc = "handler"
    /\ tok' = IF rq[c].op = "Logout" THEN RevokeWhere({rq[c].jti}, clock)
              ELSE IF rq[c].op = "RevokeMyAllTokens" THEN RevokeWhere(JTIs, clock)
              ELSE tok
    /\ rq' = [rq EXCEPT ![c].pc = "idle",
                         ![c].res = IF rq[c].op = "ChangeMyPassword" THEN "400" ELSE "200"]
    /\ UNCHANGED <<authFrame, clock>>

InitA == InitM

NextA ==
    \/ Tick
    \/ \E j \in JTIs : LoginWeb(j)
    \/ \E c \in Conns, j \in JTIs : Lookup(c, j)
    \/ \E c \in Conns : Check(c)
    \/ \E c \in Conns : Handler(c)

SpecA == InitA /\ [][NextA]_vars

\* ------------------------------------------------------------ SyncSerials
\* The serial devices of the configuration: up to MaxDevs entries, device
\* paths with and without blanks, second device paths.
MaxDevs == 2
MaxSyncs == 2
DevStrs == {"", " ", "a", " a", "b", "c"}
Dev2Strs == {"", "x", "y"}
Serials == [Device : DevStrs, Device2 : Dev2Strs]
SerialLists == UNION {[1..n -> Serials] : n \in 0..MaxDevs}

\* strings.TrimSpace as the loop of SyncSerials applies it (defined with
\* ValidateSpec below).
TrimDevice(str) == IF str = " " THEN "" ELSE IF str = " a" THEN "a" ELSE str

\* The first loop of SyncSerials: trim, skip the empty and the repeated
\* paths; normalized and normalized2 side by side.
RECURSIVE NormLoop(_, _, _)
NormLoop(devices, i, acc) ==
    IF i > Len(devices) THEN acc
    ELSE LET d == TrimDevice(devices[i].Device) IN
         IF d = "" \/ \E k \in 1..Len(acc) : acc[k].Device = d
         THEN NormLoop(devices, i + 1, acc)
         ELSE NormLoop(devices, i + 1,
                       Append(acc, [Device |-> d, Device2 |-> devices[i].Device2]))

\* models.GetDefaultSerialRow, with the key the insert gives the row.
GetDefaultSerialRow(id, device, device2) ==
    [ID |-> id, Device |-> device, Device2 |-> device2, Plugin |-> "mbus",
     PhysicalLink |-> "serial"]

\* The unique indexes of the channel table, on device and on device2.
UniqueOK(rows, row) ==
    \A r \in rows : r.Device # row.Device /\ r.Device2 # row.Device2

\* The second loop: a device found in the rows read at the start has its
\* updated_at written; any other is inserted, which the unique indexes may
\* refuse.
RECURSIVE UpsertLoop(_, _, _, _, _)
UpsertLoop(norm, i, existing, rows, id) ==
    IF i > Len(norm) THEN [err |-> "nil", rows |-> rows, id |-> id]
    ELSE IF \E r \in existing : r.Device = norm[i].Device
         THEN UpsertLoop(norm, i + 1, existing, rows, id)
         ELSE LET row == GetDefaultSerialRow(id, norm[i].Device, norm[i].Device2) IN
              IF UniqueOK(rows, row)
              THEN UpsertLoop(norm, i + 1, existing, rows \cup {row}, id + 1)
              ELSE [err |-> "create serial failed", rows |-> rows, id |-> id]

\* Mutant of DeleteMissing: the rows of devices no longer listed are kept.
DeleteMissing_Never(rows, norm) == rows

\* The deletes at the end: every row for an empty list, otherwise the rows
\* whose device is not in the list.
DeleteMissing(rows, norm) ==
    IF Len(norm) = 0 THEN {}
    ELSE { r \in rows : \E k \in 1..Len(norm) : norm[k].Device = r.Device }

\* The transaction of SyncSerials on the table rows: committed, or rolled
\* back with the error of the statement that failed.
SyncTx(rows, id, devices) ==
    LET norm == NormLoop(devices, 1, <<>>)
        up == UpsertLoop(norm, 1, rows, rows, id)
    IN  IF up.err # "nil"
        THEN [err |-> up.err, rows |-> rows, id |-> id]
        ELSE [err |-> "nil", rows |-> DeleteMissing(up.rows, norm), id |-> up.id]

\* SyncSerials(gdb, devices), called once at every start of the server.
SyncSerials(devices) ==
    LET out == SyncTx(chan, nextId, devices) IN
    /\ slog.n < MaxSyncs
    /\ chan' = out.rows
    /\ nextId' = out.id
    /\ slog' = [done |-> TRUE, devices |-> devices, err |-> out.err, before |-> chan,
                n |-> slog.n + 1]
    /\ UNCHANGED <<wmVars, impVars, valVars, scVars, simVars, regVars, authVars>>

InitSer == InitM

NextSer == \E devices \in SerialLists : SyncSerials(devices)

SpecSer == InitSer /\ [][NextSer]_vars

\* ====================================================================
\* Properties
\* ====================================================================
\* ---------------------------------------------------- ImportDeviceType
\* The position of a point in spec.Points (codes in their order): the
\* number of uuid.NewString() calls made for the points before it.
PointIdx(spec, c) == IF c = "B" /\ "A" \in DOMAIN spec.Points THEN 1 ELSE 0

\* Step 1, the upsert of device_types by type_key: a new row, or on a
\* conflict the assigned columns of the row there (not its id).
UpsertType(t, spec, n) ==
    LET old == t.types[spec.TypeKey] IN
    [t EXCEPT !.types[spec.TypeKey] =
        IF old.id = 0
        THEN [id |-> n + 1, name |-> spec.NameEn, checksum |-> Checksum(spec),
              deleted |-> FALSE]
        ELSE [old EXCEPT
                !.name = IF "name" \in TypeDoUpdates THEN spec.NameEn ELSE @,
                !.checksum = IF "checksum" \in TypeDoUpdates THEN Checksum(spec) ELSE @,
                !.deleted = IF "deleted_at" \in TypeDoUpdates THEN FALSE ELSE @]]

\* The row built for a point of the spec: rw normalised, quantity
\* defaulted, enabled.
PointRow(v, id) ==
    [id |-> id, rw |-> normalizeRW(v.rw), quantity |-> defaultU16(v.quantity, 1),
     address |-> v.address, enabled |-> TRUE, deleted |-> FALSE]

\* Step 2, the upsert of device_type_points by (type_key, point_code), for
\* every point of the spec: a new row, or on a conflict the assigned
\* columns of the row there, deleted_at among them.
UpsertPoints(t, spec, n) ==
    [t EXCEPT !.points =
        [kc \in TypeKeys \X Codes |->
            IF kc[1] = spec.TypeKey /\ kc[2] \in DOMAIN spec.Points
            THEN LET old == t.points[kc]
                     new == PointRow(spec.Points[kc[2]], n + 2 + PointIdx(spec, kc[2]))
                 IN  IF old.id = 0 THEN new
                     ELSE [new EXCEPT
                             !.id = old.id,
                             !.enabled = IF "enabled" \in PointDoUpdates THEN @ ELSE old.enabled,
                             !.deleted = IF "deleted_at" \in PointDoUpdates THEN @ ELSE old.deleted]
            ELSE t.points[kc]]]

\* Step 3, the points of the type that the spec does not name: soft-deleted
\* or disabled, rows already deleted being out of the statement's scope.
Missing(t, spec, soft) ==
    [t EXCEPT !.points =
        [kc \in TypeKeys \X Codes |->
            LET old == t.points[kc] IN
            IF /\ kc[1] = spec.TypeKey /\ kc[2] \notin DOMAIN spec.Points
               /\ old.id # 0 /\ ~old.deleted
            THEN IF soft THEN [old EXCEPT !.deleted = TRUE]
                         ELSE [old EXCEPT !.enabled = FALSE]
            ELSE old]]

\* Mutant of ImportTx: the type row is written outside any transaction and
\* stays when the call reports its error.
ImportTx_Partial(t, spec, soft, n) ==
    IF ~ValidateSpec(spec)
    THEN [err |-> TRUE, tbl |-> t, drawn |-> 0]
    ELSE [err |-> TRUE, tbl |-> UpsertType(t, spec, n), drawn |-> 1]

\* ImportDeviceType(db, spec, opt): the error returned, the tables after
\* the transaction (rolled back on an error) and the uuids drawn.
ImportTx(t, spec, soft, n) ==
    IF ~ValidateSpec(spec)
    THEN [err |-> TRUE, tbl |-> t, drawn |-> 0]
    ELSE IF ~StatementOK(TypeDoUpdates, TypeColumns)
    THEN [err |-> TRUE, tbl |-> t, drawn |-> 1]
    ELSE IF ~StatementOK(PointDoUpdates, PointColumns)
    THEN [err |-> TRUE, tbl |-> t, drawn |-> 2]
    ELSE [err |-> FALSE,
          tbl |-> Missing(UpsertPoints(UpsertType(t, spec, n), spec, n), spec, soft),
          drawn |-> 1 + Cardinality(DOMAIN spec.Points)]

\* One call of ImportDeviceType.
ImportDeviceType(spec, soft) ==
    /\ Len(hist) < MaxImports
    /\ LET r == ImportTx(tbl, spec, soft, uuids) IN
       /\ tbl' = r.tbl
       /\ uuids' = uuids + r.drawn
       /\ hist' = Append(hist, [spec |-> spec, soft |-> soft, err |-> r.err,
                                tbl |-> r.tbl])
    /\ UNCHANGED <<wmVars, pureVars>>

\* The tables after migration, nothing imported yet.
InitI == InitM

NextI == \E spec \in TypeSpecs, soft \in BOOLEAN : ImportDeviceType(spec, soft)

SpecI == InitI /\ [][NextI]_vars

\* ------------------------------------------------------------ ValidateSpec
\* The specs handed to ValidateSpec: header fields and up to MaxPoints
\* points, each with the fields ValidateSpec reads.
MaxPoints == 2
RegHolding == "holding"
RegInput == "input"
RegCoil == "coil"
RegDiscrete == "discrete"
KindAliases == {"YK", "YX", "YC", "YT"}
KindVals == {RegHolding, RegInput, RegCoil, RegDiscrete} \cup KindAliases \cup {"bad"}
PointSpecs ==
    [Code : {"", "A", "B"}, Kind : KindVals, NameEn : {"", "p"},
     FC : {0, 3}, DataType : {"", "u16"}]
PointSeqs == UNION {[1..n -> PointSpecs] : n \in 0..MaxPoints}
FullSpecs == [TypeKey : {"", "T"}, NameEn : {"", " ", "n"}, Points : PointSeqs]

\* strings.TrimSpace on the strings used here.
TrimSpace(str) == IF str = " " THEN "" ELSE IF str = " a" THEN "a" ELSE str

\* The errors of ValidateSpec: the message, and the index or the code it
\* is formatted with.
NilErr == [msg |-> "nil", at |-> 0 - 1, code |-> ""]
HeadErr(msg) == [msg |-> msg, at |-> 0 - 1, code |-> ""]
PointErr(msg, i) == [msg |-> msg, at |-> i, code |-> ""]
DupErr(c) == [msg |-> "duplicate point code", at |-> 0 - 1, code |-> c]

\* One iteration of the loop over spec.Points for the point p at index i
\* (from 0), seen being the codes of the points before it.
CheckPoint(p, i, seen) ==
    IF TrimSpace(p.Code) = "" THEN PointErr("code is required", i)
    ELSE IF p.Code \in seen THEN DupErr(p.Code)
    ELSE IF p.Kind \notin {RegHolding, RegInput, RegCoil, RegDiscrete}
         THEN PointErr("kind must be YC/YX/YK/YT", i)
    ELSE IF TrimSpace(p.NameEn) = "" THEN PointErr("name_i18n.en is required", i)
    ELSE IF p.FC = 0 THEN PointErr("modbus.fc is required", i)
    ELSE IF TrimSpace(p.DataType) = "" THEN PointErr("modbus.data_type is required", i)
    ELSE NilErr

\* The loop over spec.Points from position k (from 1) on.
RECURSIVE CheckPoints(_, _, _)
CheckPoints(pts, k, seen) ==
    IF k > Len(pts) THEN NilErr
    ELSE LET e == CheckPoint(pts[k], k - 1, seen) IN
         IF e # NilErr THEN e
         ELSE CheckPoints(pts, k + 1, seen \cup {pts[k].Code})

\* ValidateSpec(spec): the error returned.
ValidateSpecErr(spec) ==
    IF TrimSpace(spec.TypeKey) = "" THEN HeadErr("type_key is required")
    ELSE IF TrimSpace(spec.NameEn) = "" THEN HeadErr("name_en is required")
    ELSE IF Len(spec.Points) = 0 THEN HeadErr("points is required")
    ELSE CheckPoints(spec.Points, 1, {})

CallValidateSpec ==
    /\ verr = NoCall
    /\ verr' = ValidateSpecErr(vspec)
    /\ UNCHANGED <<wmVars, impVars, vspec, scVars, simVars, regVars, authVars, serVars>>

InitV ==
    /\ InitM0
    /\ vspec \in FullSpecs
    /\ verr = NoCall
    /\ ScIdle
    /\ SimIdle
    /\ RegIdle
    /\ AuthIdle
    /\ SerIdle

NextV == CallValidateSpec

SpecV == InitV /\ [][NextV]_vars

\* ------------------------------------------------------------------ Scalar
\* Values of the Go types. A 16-bit integer is a number; a 32-bit or 64-bit
\* word is the sequence of its 16-bit limbs, low limb first, a signed or
\* floating-point value being given by its bit pattern (uint32(v),
\* math.Float64bits(v)); a string or []byte is the sequence of its bytes.
Int16Vals == {0 - 32768, 0 - 1, 0, 258, 32767}
Uint16Vals == {0, 258, 65535}
Word32Vals == {<<0, 0>>, <<258, 1>>, <<0, 16256>>, <<65535, 65535>>}
Word64Vals == {<<0, 0, 0, 0>>, <<258, 1, 0, 0>>, <<0, 0, 0, 16368>>,
               <<0, 0, 0, 32760>>, <<65535, 65535, 65535, 65535>>}
ByteVals == {<<>>, <<97>>, <<97, 98>>, <<255>>}

\* uint16(v) of an int16 and int16(u) of a uint16.
ToUint16(v) == (v + 65536) % 65536
ToInt16(u) == IF u >= 32768 THEN u - 65536 ELSE u

\* binary.LittleEndian.PutUint16 / PutUint32 / PutUint64.
PutUint16(u) == <<u % 256, u \div 256>>
PutUint32(w) == PutUint16(w[1]) \o PutUint16(w[2])
PutUint64(w) == PutUint16(w[1]) \o PutUint16(w[2]) \o PutUint16(w[3]) \o PutUint16(w[4])

\* binary.LittleEndian.Uint16 / Uint32 / Uint64: the first 2, 4, 8 bytes.
LEUint16(b) == b[1] + 256 * b[2]
LEUint32(b) == <<b[1] + 256 * b[2], b[3] + 256 * b[4]>>
LEUint64(b) == <<b[1] + 256 * b[2], b[3] + 256 * b[4],
                 b[5] + 256 * b[6], b[7] + 256 * b[8]>>

\* The setters.
SetBool(v) == [Kind |-> KindBool, Raw |-> IF v THEN <<1>> ELSE <<0>>]
SetSint16(v) == [Kind |-> KindSint16, Raw |-> PutUint16(ToUint16(v))]
SetUint16(v) == [Kind |-> KindUint16, Raw |-> PutUint16(v)]
SetSint32(v) == [Kind |-> KindSint32, Raw |-> PutUint32(v)]
SetUint32(v) == [Kind |-> KindUint32, Raw |-> PutUint32(v)]
SetSint64(v) == [Kind |-> KindSint64, Raw |-> PutUint64(v)]
SetUint64(v) == [Kind |-> KindUint64, Raw |-> PutUint64(v)]
SetFloat32(v) == [Kind |-> KindFloat32, Raw |-> PutUint32(v)]
SetFloat64(v) == [Kind |-> KindFloat64, Raw |-> PutUint64(v)]
SetString(v) == [Kind |-> KindString, Raw |-> v]
SetBytes(v) == [Kind |-> KindBytes, Raw |-> v]

\* The kinds that have a setter and a getter, the values of each and the
\* number of raw bytes declared for it (0: any length).
TypedKinds == {KindBool, KindUint16, KindSint16, KindUint32, KindSint32, KindSint64,
               KindUint64, KindFloat32, KindFloat64, KindString, KindBytes}
ValsOf(k) ==
    CASE k = KindBool -> BOOLEAN
      [] k = KindSint16 -> Int16Vals
      [] k = KindUint16 -> Uint16Vals
      [] k \in {KindSint32, KindUint32, KindFloat32} -> Word32Vals
      [] k \in {KindSint64, KindUint64, KindFloat64} -> Word64Vals
      [] OTHER -> ByteVals
WidthOf(k) ==
    CASE k = KindBool -> 1
      [] k \in {KindSint16, KindUint16} -> 2
      [] k \in {KindSint32, KindUint32, KindFloat32} -> 4
      [] k \in {KindSint64, KindUint64, KindFloat64} -> 8
      [] OTHER -> 0
Setter(k, v) ==
    CASE k = KindBool -> SetBool(v)
      [] k = KindSint16 -> SetSint16(v)
      [] k = KindUint16 -> SetUint16(v)
      [] k = KindSint32 -> SetSint32(v)
      [] k = KindUint32 -> SetUint32(v)
      [] k = KindSint64 -> SetSint64(v)
      [] k = KindUint64 -> SetUint64(v)
      [] k = KindFloat32 -> SetFloat32(v)
      [] k = KindFloat64 -> SetFloat64(v)
      [] k = KindString -> SetString(v)
      [] OTHER -> SetBytes(v)

\* The errors of the getters, each built by fmt.Errorf, and their results.
NoError == "nil"
KindErr == "kind mismatch: want ..., got ..."
LenErr == "invalid ... raw length: ..."
Res(val, err) == [val |-> val, err |-> err]

\* The getters.
Bool(s) ==
    IF s.Kind # KindBool THEN Res(FALSE, KindErr)
    ELSE IF Len(s.Raw) # 1 THEN Res(FALSE, LenErr)
    ELSE Res(s.Raw[1] # 0, NoError)
Sint16(s) ==
    IF s.Kind # KindSint16 THEN Res(0, KindErr)
    ELSE IF Len(s.Raw) # 2 THEN Res(0, LenErr)
    ELSE Res(ToInt16(LEUint16(s.Raw)), NoError)
Uint16(s) ==
    IF s.Kind # KindUint16 THEN Res(0, KindErr)
    ELSE IF Len(s.Raw) # 2 THEN Res(0, LenErr)
    ELSE Res(LEUint16(s.Raw), NoError)
Sint32(s) ==
    IF s.Kind # KindSint64 THEN Res(<<0, 0>>, KindErr)
    ELSE IF Len(s.Raw) # 4 THEN Res(<<0, 0>>, LenErr)
    ELSE Res(LEUint32(s.Raw), NoError)
Uint32(s) ==
    IF s.Kind # KindUint32 THEN Res(<<0, 0>>, KindErr)
    ELSE IF Len(s.Raw) # 4 THEN Res(<<0, 0>>, LenErr)
    ELSE Res(LEUint32(s.Raw), NoError)
Sint64(s) ==
    IF s.Kind # KindSint64 THEN Res(<<0, 0, 0, 0>>, KindErr)
    ELSE IF Len(s.Raw) # 8 THEN Res(<<0, 0, 0, 0>>, LenErr)
    ELSE Res(LEUint64(s.Raw), NoError)
Uint64(s) ==
    IF s.Kind # KindUint64 THEN Res(<<0, 0, 0, 0>>, KindErr)
    ELSE IF Len(s.Raw) # 8 THEN Res(<<0, 0, 0, 0>>, LenErr)
    ELSE Res(LEUint64(s.Raw), NoError)
Float32(s) ==
    IF s.Kind # KindFloat64 THEN Res(<<0, 0>>, KindErr)
    ELSE IF Len(s.Raw) # 8 THEN Res(<<0, 0>>, LenErr)
    ELSE Res(LEUint32(s.Raw), NoError)
Float64(s) ==
    IF s.Kind # KindFloat64 THEN Res(<<0, 0, 0, 0>>, KindErr)
    ELSE IF Len(s.Raw) # 8 THEN Res(<<0, 0, 0, 0>>, LenErr)
    ELSE Res(LEUint64(s.Raw), NoError)
String(s) ==
    IF s.Kind # KindString THEN Res(<<>>, KindErr) ELSE Res(s.Raw, NoError)
Bytes(s) ==
    IF s.Kind # KindBytes THEN Res(<<>>, KindErr) ELSE Res(s.Raw, NoError)

\* The getter of the type of kind g.
Getter(g, s) ==
    CASE g = KindBool -> Bool(s)
      [] g = KindSint16 -> Sint16(s)
      [] g = KindUint16 -> Uint16(s)
      [] g = KindSint32 -> Sint32(s)
      [] g = KindUint32 -> Uint32(s)
      [] g = KindSint64 -> Sint64(s)
      [] g = KindUint64 -> Uint64(s)
      [] g = KindFloat32 -> Float32(s)
      [] g = KindFloat64 -> Float64(s)
      [] g = KindString -> String(s)
      [] OTHER -> Bytes(s)

\* What the getter of kind g returns with an error: the zero value.
ZeroOf(g) ==
    CASE g = KindBool -> FALSE
      [] g \in {KindSint16, KindUint16} -> 0
      [] g \in {KindSint32, KindUint32, KindFloat32} -> <<0, 0>>
      [] g \in {KindSint64, KindUint64, KindFloat64} -> <<0, 0, 0, 0>>
      [] OTHER -> <<>>

\* s.K(v) for the setter of kind k.
CallSet(k, v) ==
    /\ sc' = Setter(k, v)
    /\ sset' = [k |-> k, v |-> v]
    /\ sget' = NoGet
    /\ sjs' = NoJS
    /\ UNCHANGED <<wmVars, impVars, valVars, simVars, regVars, authVars, serVars>>

\* s.Scan(b) with a []byte: Raw replaced, Kind kept.
ScanVals == {<<>>, <<2>>, <<1, 0, 0, 0>>, <<0, 0, 128, 63, 0, 0, 0, 0>>}
CallScan(b) ==
    /\ sc' = [sc EXCEPT !.Raw = b]
    /\ sset' = NoSet
    /\ sget' = NoGet
    /\ sjs' = NoJS
    /\ UNCHANGED <<wmVars, impVars, valVars, simVars, regVars, authVars, serVars>>

\* v, err := s.G() for the getter of kind g.
CallGet(g) ==
    /\ sget' = [k |-> g, val |-> Getter(g, sc).val, err |-> Getter(g, sc).err]
    /\ UNCHANGED <<wmVars, impVars, valVars, sc, sset, sjs, simVars, regVars, authVars, serVars>>

\* ParseKind(s): the kind, or the error for an unknown name.
ParseKind(str) ==
    CASE str = "bool" -> [k |-> KindBool, err |-> NoError]
      [] str \in {"sint16", "sint32", "sint64"} -> [k |-> KindSint64, err |-> NoError]
      [] str \in {"uint16", "uint32", "uint64"} -> [k |-> KindUint64, err |-> NoError]
      [] str = "float32" -> [k |-> KindFloat32, err |-> NoError]
      [] str = "float64" -> [k |-> KindFloat64, err |-> NoError]
      [] str = "string" -> [k |-> KindString, err |-> NoError]
      [] str = "bytes" -> [k |-> KindBytes, err |-> NoError]
      [] str = "bitmask" -> [k |-> KindBitMask, err |-> NoError]
      [] OTHER -> [k |-> KindInvalid, err |-> "unknown kind"]

\* A JSON text {"kind": kind, "value": value}: the value carries the JSON
\* type it is written in; JErr is a failed json.Marshal or getter.
JText(kind, t, v) == [err |-> NoError, kind |-> kind, t |-> t, v |-> v]
JErr(err) == [err |-> err, kind |-> "", t |-> "null", v |-> <<>>]

\* json.Marshal of a float64 refuses NaN and the infinities (exponent bits
\* all ones); v is the bit pattern.
IsNaNOrInf64(v) == (v[4] \div 16) % 2048 = 2047

\* json.Marshal of a string writes U+FFFD for a byte that is no UTF-8; of
\* the bytes used here those from 245 on are never part of a UTF-8 sequence.
RECURSIVE CoerceUTF8(_)
CoerceUTF8(b) ==
    IF b = <<>> THEN <<>>
    ELSE (IF Head(b) >= 245 THEN <<239, 191, 189>> ELSE <<Head(b)>>) \o CoerceUTF8(Tail(b))

\* s.MarshalJSON().
MarshalJSON(s) ==
    CASE s.Kind = KindBool ->
           IF Bool(s).err # NoError THEN JErr(Bool(s).err)
           ELSE JText("bool", "bool", Bool(s).val)
      [] s.Kind = KindSint64 ->
           IF Sint64(s).err # NoError THEN JErr(Sint64(s).err)
           ELSE JText("int64", "int64", Sint64(s).val)
      [] s.Kind = KindUint64 ->
           IF Uint64(s).err # NoError THEN JErr(Uint64(s).err)
           ELSE JText("uint64", "uint64", Uint64(s).val)
      [] s.Kind = KindFloat32 ->
           IF Float32(s).err # NoError THEN JErr(Float32(s).err)
           ELSE JText("float32", "float32", Float32(s).val)
      [] s.Kind = KindFloat64 ->
           IF Float64(s).err # NoError THEN JErr(Float64(s).err)
           ELSE IF IsNaNOrInf64(Float64(s).val) THEN JErr("json: unsupported value")
           ELSE JText("float64", "float64", Float64(s).val)
      [] s.Kind = KindString -> JText("string", "string", CoerceUTF8(String(s).val))
      [] s.Kind = KindBytes -> JText("bytes", "base64", s.Raw)
      [] OTHER -> JText("invalid", "null", <<>>)

\* json.Unmarshal(js.Value, &v) for a variable v of the Go type want, whose
\* zero value is zero: null leaves v alone, a value written from the same
\* type is read back, any other is refused.
DecodeValue(js, want, zero) ==
    IF js.t = "null" THEN [err |-> NoError, v |-> zero]
    ELSE IF js.t = want THEN [err |-> NoError, v |-> js.v]
    ELSE [err |-> "json: cannot unmarshal", v |-> zero]

\* The switch of UnmarshalJSON for the kind k: decode, then the setter
\* (the kinds ParseKind never returns come last).
UnmarshalKind(js, k) ==
    LET want == CASE k = KindBool -> "bool"
                  [] k = KindSint64 -> "int64"
                  [] k = KindUint64 -> "uint64"
                  [] k = KindFloat32 -> "float32"
                  [] k = KindFloat64 -> "float64"
                  [] k = KindString -> "string"
                  [] k = KindBytes -> "base64"
                  [] OTHER -> "narrow integer"
        d == DecodeValue(js, want, ZeroOf(k))
    IN  IF d.err # NoError THEN [err |-> d.err, s |-> [Kind |-> k, Raw |-> <<>>]]
        ELSE [err |-> NoError, s |-> Setter(k, d.v)]

\* s.UnmarshalJSON(b) on a zero Scalar, b being the text js.
UnmarshalJSON(js) ==
    LET pk == ParseKind(js.kind) IN
    IF pk.err # NoError THEN [err |-> pk.err, s |-> ZeroScalar]
    ELSE IF pk.k \in TypedKinds THEN UnmarshalKind(js, pk.k)
    ELSE [err |-> NoError, s |-> ZeroScalar]

\* b, err := s.MarshalJSON(); if err == nil { err = out.UnmarshalJSON(b) }
CallJSON ==
    /\ LET m == MarshalJSON(sc) IN
       IF m.err # NoError
       THEN sjs' = [done |-> TRUE, merr |-> m.err, uerr |-> NoError, out |-> ZeroScalar]
       ELSE sjs' = [done |-> TRUE, merr |-> NoError, uerr |-> UnmarshalJSON(m).err,
                    out |-> UnmarshalJSON(m).s]
    /\ UNCHANGED <<wmVars, impVars, valVars, sc, sset, sget, simVars, regVars, authVars, serVars>>

InitS ==
    /\ InitM0
    /\ ValIdle
    /\ ScIdle
    /\ SimIdle
    /\ RegIdle
    /\ AuthIdle
    /\ SerIdle

NextS ==
    \/ \E k \in TypedKinds : \E v \in ValsOf(k) : CallSet(k, v)
    \/ \E b \in ScanVals : CallScan(b)
    \/ \E g \in TypedKinds : CallGet(g)
    \/ CallJSON

SpecS == InitS /\ [][NextS]_vars

\* --------------------------------------------------------------- simulator
\* The requests the server hands to the handlers: unit id, start address
\* and quantity (uint16), and for a write one argument per register.
MaxQty == 2
MaxReqs == 2
UnitIds == {1, 2}
AddrVals == {0, 80, 99, 100, 101, 300, 65535}
RegVals == {0, 7}
Reads(quantities) ==
    [UnitId : UnitIds, Addr : AddrVals, Quantity : quantities,
     IsWrite : {FALSE}, Args : {<<>>}]
Writes(vals) ==
    UNION {[UnitId : UnitIds, Addr : AddrVals, Quantity : {n},
            IsWrite : {TRUE}, Args : [1..n -> vals]] : n \in 0..MaxQty}
CoilReqs == Reads(0..MaxQty \cup {65535}) \cup Writes(BOOLEAN)
HoldingReqs == Reads(0..MaxQty) \cup Writes(RegVals)
InputReqs == Reads(0..MaxQty \cup {65535})

\* time.Now().Unix() & 0xffffffff as its two 16-bit halves, high first.
NowVals == {<<26000, 7>>}

ErrIllegalFunction == "modbus.ErrIllegalFunction"
ErrIllegalDataAddress == "modbus.ErrIllegalDataAddress"

\* A handler's return values and the registers it leaves.
Answer(res, err, b) == [res |-> res, err |-> err, bank |-> b]

\* eh.holdingReg[a]: a register never written is 0.
HoldingAt(hr, a) == IF a \in DOMAIN hr THEN hr[a] ELSE 0

\* HandleCoils(req).
HandleCoils(b, req) ==
    IF req.UnitId # 1 THEN Answer(<<>>, NoError, b)
    ELSE IF req.Addr + req.Quantity > 100 THEN Answer(<<>>, ErrIllegalDataAddress, b)
    ELSE LET written == [a \in CoilAddrs |->
                            IF /\ req.IsWrite
                               /\ a >= req.Addr /\ a < req.Addr + req.Quantity
                               /\ a # 80
                            THEN req.Args[a - req.Addr + 1] ELSE b.coils[a]]
         IN  Answer([i \in 1..req.Quantity |-> written[req.Addr + i - 1]], NoError,
                    [b EXCEPT !.coils = written])

\* HandleDiscreteInputs(req).
HandleDiscreteInputs(b, req) == Answer(<<>>, ErrIllegalFunction, b)

\* The loop of HandleHoldingRegisters from i on: regAddr is computed in
\* uint16.
RECURSIVE HoldingLoop(_, _, _, _)
HoldingLoop(hr, req, i, res) ==
    IF i >= req.Quantity THEN [res |-> res, hr |-> hr]
    ELSE LET regAddr == (req.Addr + i) % 65536
             hr2 == IF req.IsWrite
                    THEN [a \in DOMAIN hr \cup {regAddr} |->
                            IF a = regAddr THEN req.Args[i + 1] ELSE hr[a]]
                    ELSE hr
         IN  HoldingLoop(hr2, req, i + 1, Append(res, HoldingAt(hr2, regAddr)))

\* HandleHoldingRegisters(req): the unit id test has an empty body.
HandleHoldingRegisters(b, req) ==
    LET r == HoldingLoop(b.holdingReg, req, 0, <<>>) IN
    Answer(r.res, NoError, [b EXCEPT !.holdingReg = r.hr])

\* The input registers the switch defines and what each answers.
InputDefined == {100, 101, 200, 201, 202, 203, 300, 301}
InputAt(b, now, a) ==
    CASE a = 100 -> 4369
      [] a = 101 -> ToUint16(0 - 1)
      [] a = 200 -> (b.uptime \div 65536) % 65536
      [] a = 201 -> b.uptime % 65536
      [] a = 202 -> now[1]
      [] a = 203 -> now[2]
      [] a = 300 -> 16457
      [] OTHER -> 3670

\* The loop of HandleInputRegisters: regAddr and the bound req.Addr +
\* req.Quantity are uint16.
RECURSIVE InputLoop(_, _, _, _, _)
InputLoop(b, now, regAddr, end, res) ==
    IF ~(regAddr < end) THEN Answer(res, NoError, b)
    ELSE IF regAddr \notin InputDefined THEN Answer(res, ErrIllegalDataAddress, b)
    ELSE InputLoop(b, now, (regAddr + 1) % 65536, end, Append(res, InputAt(b, now, regAddr)))

\* HandleInputRegisters(req): the unit id test has an empty body.
HandleInputRegisters(b, req, now) ==
    InputLoop(b, now, req.Addr, (req.Addr + req.Quantity) % 65536, <<>>)

\* One request served: the answer recorded, the registers updated.
Serve(h, req, a) ==
    /\ sim.n < MaxReqs
    /\ sim' = [n |-> sim.n + 1, h |-> h, req |-> req, res |-> a.res, err |-> a.err,
               before |-> bank]
    /\ bank' = a.bank
    /\ UNCHANGED <<wmVars, impVars, valVars, scVars, regVars, authVars, serVars>>

InitSim ==
    /\ InitM0
    /\ ValIdle
    /\ ScIdle
    /\ SimIdle
    /\ RegIdle
    /\ AuthIdle
    /\ SerIdle

NextSim ==
    \/ \E req \in CoilReqs : Serve("coils", req, HandleCoils(bank, req))
    \/ \E req \in Reads({1}) : Serve("discrete", req, HandleDiscreteInputs(bank, req))
    \/ \E req \in HoldingReqs : Serve("holding", req, HandleHoldingRegisters(bank, req))
    \/ \E req \in InputReqs, now \in NowVals :
          Serve("input", req, HandleInputRegisters(bank, req, now))

SpecSim == InitSim /\ [][NextSim]_vars

\* ---------------------------------------------------------------- registry
\* The factories handed to RegisterFactory: the type tag f.Type() and which
\* of two implementations of that type it is.
MaxRegs == 3
FactoryTypes == {"", "mbus", "cmbus", "goose"}
Factories == [Type : FactoryTypes, impl : {1, 2}]

\* A call of RegisterFactory panicked: nothing recovers it, the process is
\* gone.
Crashed == Len(rlog) > 0 /\ rlog[Len(rlog)].panic

\* Mutant of Exists: the duplicate test never finds the type.
Exists_Never(t) == FALSE

\* _, exists := factories[t]
Exists(t) == t \in DOMAIN factories

\* RegisterFactory(f): panics for an empty or a registered type, stores f
\* otherwise.
RegisterFactory(f) ==
    /\ ~Crashed
    /\ Len(rlog) < MaxRegs
    /\ LET t == f.Type
           refused == t = "" \/ Exists(t)
           after == IF refused THEN factories
                    ELSE [x \in DOMAIN factories \cup {t} |->
                            IF x = t THEN f ELSE factories[x]]
       IN  /\ factories' = after
           /\ rlog' = Append(rlog, [f |-> f, panic |-> refused, after |-> after])
    /\ UNCHANGED <<wmVars, impVars, valVars, scVars, simVars, rget, authVars, serVars>>

\* f, ok := GetFactory(t)
GetFactory(t) ==
    /\ ~Crashed
    /\ rget' = [t |-> t, f |-> IF Exists(t) THEN factories[t] ELSE NoFactory,
                ok |-> Exists(t), done |-> TRUE]
    /\ UNCHANGED <<wmVars, impVars, valVars, scVars, simVars, factories, rlog, authVars, serVars>>

InitR ==
    /\ InitM0
    /\ ValIdle
    /\ ScIdle
    /\ SimIdle
    /\ RegIdle
    /\ AuthIdle
    /\ SerIdle

NextR ==
    \/ \E f \in Factories : RegisterFactory(f)
    \/ \E t \in FactoryTypes : GetFactory(t)

SpecR == InitR /\ [][NextR]_vars

\* ------------------------------------------------------------ properties

\* The calls of Close in progress: goroutine t is inside Close on i.
InClose(t) == th[t].pc \in {"close_lock", "close_wait"}

\* No transport of an instance with fields r is open: neither the protocol
\* object the instance holds nor one it has dropped.
TransportClosed(r) ==
    /\ r.client # "open"
    /\ r.server1 # "open"
    /\ ~r.leaked

\* C1: when a call of Close on a worker instance returns, no poller
\* goroutine of that instance is running and its protocol object (client or
\* simulator server) is closed, on serial and TCP channels, whatever the
\* goroutine was doing when Close was called.
C1_CloseStopsWorker ==
    [][\A t \in Threads :
          (InClose(t) /\ ~InClose(t)')
              => /\ \A s \in Slots : poller'[th[t].inst][s] = "none"
                 /\ TransportClosed(inst'[th[t].inst])]_vars

\* C1 witness: Close has returned on a worker whose poller had connected;
\* the worker is closed and nobody is inside a call.
C1_Witness ==
    /\ nClosed[1] >= 1
    /\ inst[1].Linking
    /\ ~inst[1].init
    /\ inst[1].client = "nil" /\ inst[1].server1 = "nil"
    /\ \A t \in Threads : th[t].pc = "idle"

\* C2: under any interleaving of Init, Close and UpdateConfig by concurrent
\* callers, an mbus instance has at most one poller goroutine, and so at
\* most one read request outstanding on its client.
C2_OnePoller ==
    \A i \in Insts :
        inst[i].typ = "mbus" =>
            /\ Cardinality({ s \in Slots : poller[i][s] # "none" }) <= 1
            /\ Cardinality({ s \in Slots : poller[i][s] = "reading" }) <= 1

\* C2 witness: a read is outstanding on an mbus worker while a caller is
\* inside Close, waiting for the poller goroutine.
C2_Witness ==
    /\ inst[1].typ = "mbus"
    /\ \E s \in Slots : poller[1][s] = "reading"
    /\ \E t \in Threads : th[t].pc = "close_wait"

\* Two configurations agree on every field but the start address, the
\* quantity and the register type.
SameTransport(a, b) ==
    [a EXCEPT !.StartAddr = 0, !.Quantity = 0, !.RegType = ""]
        = [b EXCEPT !.StartAddr = 0, !.Quantity = 0, !.RegType = ""]

\* Goroutine t takes the locked step of UpdateConfig on a running worker.
UCActs(t) ==
    /\ th[t].pc = "uc_lock"
    /\ th'[t].pc # "uc_lock"
    /\ inst[th[t].inst].init

\* The worker is left as it is by a step: same context, same goroutines,
\* same protocol object, nothing started or closed.
Untouched(i) ==
    /\ inst'[i].ctx = inst[i].ctx
    /\ inst'[i].init
    /\ inst'[i].client = inst[i].client /\ inst'[i].server1 = inst[i].server1
    /\ poller' = poller
    /\ nSpawn' = nSpawn /\ nClosed' = nClosed

C5_Equal(r, raw) ==
    \/ Len(raw) = 0
    \/ /\ r.typ = "mbus"
       /\ r.cfg = [raw[1] EXCEPT
                     !.Quantity = IF raw[1].Quantity = 0 THEN 10 ELSE raw[1].Quantity,
                     !.RegType = IF raw[1].RegType = "" THEN "holding" ELSE raw[1].RegType]
    \/ /\ r.typ = "cmbus"
       /\ r.cfg = raw[1]

C7_SkipRestart ==
    [][\A t \in Threads :
          LET i == th[t].inst IN
          (th[t].pc = "uc_check" /\ th[t].parent = "root" /\ rootCancelled
             /\ th'[t].pc # "uc_check")
              => /\ th'[t].pc = "idle"
                 /\ nSpawn' = nSpawn
                 /\ ~th[t].intf
                      => /\ ~inst'[i].init
                         /\ \A s \in Slots : poller'[i][s] = "none"
                         /\ inst'[i].client = "nil" /\ inst'[i].server1 = "nil"
                         /\ ~inst'[i].leaked]_vars

\* C7 witness: the root was cancelled while an UpdateConfig restarted a
\* running worker: the new configuration is stored (its URL never filled in
\* by Init), the worker has been closed once and is not initialised.
C7_Witness ==
    /\ rootCancelled
    /\ inst[1].parentCtx = "root"
    /\ inst[1].cfg.URL = NoURL
    /\ nSpawn[1] = 1 /\ nClosed[1] = 1
    /\ ~inst[1].init
    /\ \A s \in Slots : poller[1][s] = "none"
    /\ \A t \in Threads : th[t].pc = "idle"

\* C8: every UpdateConfig call on an mbus worker returns, whatever the
\* poller goroutine is doing and whatever Init, Close or UpdateConfig calls
\* run concurrently on the instance, given that every transport call and
\* every sleep returns.
C8_UpdateConfigReturns ==
    \A t \in Threads :
        (th[t].op = "UpdateConfig" /\ inst[1].typ = "mbus") ~> (th[t].pc = "idle")

\* C8 witness: an UpdateConfig holds the mutex and waits in Close for the
\* poller goroutine, which is inside a read.
C8_Witness ==
    /\ inst[1].typ = "mbus"
    /\ \E t \in Threads : th[t].op = "UpdateConfig" /\ th[t].pc = "close_wait"
    /\ \E s \in Slots : poller[1][s] = "reading"

\* The number of instances the manager's map holds under a key.
Held(k) == IF instances[k] # 0 THEN 1 ELSE 0

\* C3 as stated: as long as only Create and Destroy have changed the map,
\* the number of instances held under each (type, id) is the number of
\* successful Create calls minus the number of successful Destroy calls
\* for that key.
C3_MapIsCreatesMinusDestroys ==
    (\A k \in Keys : nDaDel[k] = 0)
        => \A k \in Keys : Held(k) = nCreate[k] - nDestroy[k]

\* Some Create call for instance i has not returned yet.
InCreate(i) == \E t \in Threads : th[t].op = "Create" /\ th[t].inst = i

\* C4 as stated: every instance initialised through the manager and not
\* closed, once its Create has returned, is the value the map stores under
\* its (type, id), so that Get, Destroy and DestroyAll reach it.
C4_RunningIsInMap ==
    \A i \in Insts :
        (inst[i].init /\ ~InCreate(i))
            => instances[<<inst[i].typ, inst[i].id>>] = i

\* The program counters of a goroutine inside an instance method.
InInstanceMethod(t) ==
    th[t].pc \in {"init_lock", "close_lock", "close_wait", "uc_lock", "uc_check"}

\* C9 as stated: no goroutine is inside Init, Close or UpdateConfig of an
\* instance while it holds the manager's map lock.
C9_NoMethodUnderLock ==
    \A t \in Threads : mgrMu = t => ~InInstanceMethod(t)

\* C10 as stated: an instance for which Destroy has returned nil has no
\* poller goroutine, now or later, whatever Update is still in progress.
C10_DestroyedStaysStopped ==
    \A i \in destroyed : \A s \in Slots : poller[i][s] = "none"

\* C11: when the Init called by Create returns an error, Create returns
\* without touching the manager's map: the step that returns leaves the map
\* and the count of stored creations as they were, the failed instance is
\* not in the map, and every instance the map holds was started by its Init.
C11_FailedCreateNotStored ==
    [][/\ \A t \in Threads :
            (th[t].pc = "cr_store" /\ th[t].res = "err" /\ th'[t].pc # "cr_store")
                => /\ instances' = instances
                   /\ nCreate' = nCreate
                   /\ th'[t].pc = "idle"
                   /\ \A k \in Keys : instances'[k] # th[t].inst
       /\ \A k \in Keys : instances[k] # 0 => nSpawn[instances[k]] >= 1]_vars

\* C11 witness: a Create has returned the error of its Init: the instance
\* it constructed was never started, no caller holds it, and the map has
\* no entry for its key.
C11_Witness ==
    \E i \in Insts :
        /\ inst[i].typ = "cmbus"
        /\ nSpawn[i] = 0
        /\ ~inst[i].init
        /\ instances[<<inst[i].typ, inst[i].id>>] = 0
        /\ \A t \in Threads : th[t].pc = "idle"

\* C12: Init on an initialised instance returns nil and changes nothing:
\* the instance record (parent and child context, protocol object,
\* configuration, flags) is the same, no goroutine is started or stopped.
C12_InitIdempotent ==
    [][\A t \in Threads :
          LET i == th[t].inst IN
          (th[t].pc = "init_lock" /\ th'[t].pc # "init_lock" /\ inst[i].init)
              => /\ inst'[i] = inst[i]
                 /\ poller' = poller
                 /\ nSpawn' = nSpawn /\ nClosed' = nClosed
                 /\ th'[t].pc = th[t].ret
                 /\ th'[t].res # "err"]_vars

\* C12 witness: an Init has returned at its first check on a worker that
\* is still running the one goroutine its first Init started.
C12_Witness ==
    /\ noop = "Init"
    /\ inst[1].init
    /\ nSpawn[1] = 1 /\ nClosed[1] = 0
    /\ \E s \in Slots : poller[1][s] = "tick"
    /\ \A t \in Threads : th[t].pc = "idle"

C14_ExceptionKeepsTransport ==
    \A i \in Insts : \A s \in Slots :
        poller[i][s] = AfterReadErr("exception")
            => /\ inst[i].client = "open"
               /\ inst[i].PointsErrorRead >= 1

\* C15 as stated: once the context of a worker is cancelled, its poller
\* goroutine starts no further Open and no further read.
C15_CancelWinsOverIO ==
    [][\A i \in Insts : \A s \in Slots :
          CtxDone(i) =>
              /\ poller'[i][s] = "reading" => poller[i][s] = "reading"
              /\ poller'[i][s] = "opening" => poller[i][s] = "opening"]_vars

\* C16: after the root context, parent of an mbus worker, is cancelled,
\* every poller goroutine of the worker eventually exits, whatever point
\* of its loop it is at, and the client is not open when a goroutine exits.
C16_CancelTerminates ==
    /\ \A s \in Slots :
          (rootCancelled /\ inst[1].typ = "mbus" /\ inst[1].parentCtx = "root"
             /\ poller[1][s] # "none")
              ~> (poller[1][s] = "none")
    /\ [][\A s \in Slots :
            (inst[1].typ = "mbus" /\ poller[1][s] # "none" /\ poller'[1][s] = "none")
                => inst'[1].client # "open"]_vars

\* C16 witness: the root was cancelled while the worker was connected; its
\* goroutine has exited on its own, no Close having run, and the client is
\* closed.
C16_Witness ==
    /\ rootCancelled
    /\ inst[1].typ = "mbus" /\ inst[1].parentCtx = "root"
    /\ inst[1].init /\ inst[1].Linking
    /\ nSpawn[1] = 1 /\ nClosed[1] = 0
    /\ \A s \in Slots : poller[1][s] = "none"
    /\ inst[1].client = "closed"
    /\ \A t \in Threads : th[t].pc = "idle"

\* The places of the poller goroutine where it sleeps before a new Open.
Backoffs == {"backoff_open", "backoff_read", "backoff_exc"}

\* C17: after a read of an mbus worker fails with a transport error the
\* client is closed and the goroutine is in the back-off; a read is only
\* started from the inner loop with the client open, the inner loop is only
\* entered from a successful Open, a back-off ends at the loop head or with
\* the exit, the goroutine exits only when its context is done; and from
\* the back-off it reaches the next Open unless the context is done.
C17_RetryAfterReadFailure ==
    /\ [][\A s \in Slots :
            inst[1].typ = "mbus" =>
                /\ poller'[1][s] = AfterReadErr("transport")
                      => /\ poller[1][s] \in {"reading", AfterReadErr("transport")}
                         /\ inst'[1].client # "open"
                /\ (poller'[1][s] = "reading" /\ poller[1][s] # "reading")
                      => (poller[1][s] = "tick" /\ inst[1].client = "open")
                /\ (poller'[1][s] = "tick" /\ poller[1][s] \notin {"tick", "reading"})
                      => poller[1][s] = "opening"
                /\ (poller[1][s] \in Backoffs /\ poller'[1][s] # poller[1][s])
                      => poller'[1][s] \in {"top", "none"}
                /\ (poller[1][s] # "none" /\ poller'[1][s] = "none")
                      => CtxDone(1)]_vars
    /\ \A s \in Slots :
          (inst[1].typ = "mbus" /\ poller[1][s] = AfterReadErr("transport"))
              ~> (poller[1][s] = "opening" \/ CtxDone(1))

\* C17 witness: a read has failed with a transport error: the goroutine is
\* in the back-off, the client is closed, the context is live.
C17_Witness ==
    /\ inst[1].typ = "mbus"
    /\ \E s \in Slots : poller[1][s] = AfterReadErr("transport")
    /\ inst[1].client = "closed"
    /\ inst[1].Linking
    /\ ~CtxDone(1)

\* The stored row of point c of the type of spec carries the fields the
\* spec gives the point, is enabled and is not deleted.
StoredAsIn(t, spec, c) ==
    LET row == t.points[<<spec.TypeKey, c>>]
        v == spec.Points[c]
    IN  /\ row.id # 0
        /\ row.rw = normalizeRW(v.rw)
        /\ row.quantity = defaultU16(v.quantity, 1)
        /\ row.address = v.address
        /\ row.enabled /\ ~row.deleted

\* C18 as stated: two imports in a row of one valid spec in one mode both
\* succeed, the tables after the second are those after the first, and the
\* stored checksum of the type is the hash of the spec.
C18_ReimportIdempotent ==
    \A n \in 1..(Len(hist) - 1) :
        (/\ hist[n].spec = hist[n + 1].spec
         /\ hist[n].soft = hist[n + 1].soft
         /\ ValidateSpec(hist[n].spec))
            => /\ ~hist[n].err /\ ~hist[n + 1].err
               /\ hist[n + 1].tbl = hist[n].tbl
               /\ hist[n + 1].tbl.types[hist[n].spec.TypeKey].checksum
                      = Checksum(hist[n].spec)

\* C19 as stated: after an import of S1 and then one of S2 for the same
\* type key, both with missing points disabled, every point of S2 is stored
\* with the fields of S2 and enabled, every point of S1 that S2 has not is
\* stored, not deleted and not enabled, and the checksum is that of S2.
C19_DisableMissing ==
    \A n \in 1..(Len(hist) - 1) :
        LET S1 == hist[n].spec
            S2 == hist[n + 1].spec
            t == hist[n + 1].tbl
        IN  (/\ ValidateSpec(S1) /\ ValidateSpec(S2)
             /\ S1.TypeKey = S2.TypeKey
             /\ ~hist[n].soft /\ ~hist[n + 1].soft)
                => /\ \A c \in DOMAIN S2.Points : StoredAsIn(t, S2, c)
                   /\ \A c \in (DOMAIN S1.Points) \ (DOMAIN S2.Points) :
                        LET row == t.points[<<S1.TypeKey, c>>] IN
                        row.id # 0 /\ ~row.deleted /\ ~row.enabled
                   /\ t.types[S2.TypeKey].checksum = Checksum(S2)

\* C20 as stated: a point stored by an import and absent from the spec of
\* the next import, made with soft delete, is marked deleted by it; an
\* import after that whose spec has the code again leaves the same row
\* (same id) not deleted, enabled and with the new fields.
C20_SoftDeleteRevive ==
    \A n \in 1..(Len(hist) - 2) :
        LET S1 == hist[n].spec
            S2 == hist[n + 1].spec
            S3 == hist[n + 2].spec
        IN  \A c \in Codes :
            (/\ ValidateSpec(S1) /\ ValidateSpec(S2) /\ ValidateSpec(S3)
             /\ c \in DOMAIN S1.Points /\ c \notin DOMAIN S2.Points
             /\ c \in DOMAIN S3.Points
             /\ hist[n + 1].soft)
                => /\ hist[n + 1].tbl.points[<<S1.TypeKey, c>>].id # 0
                   /\ hist[n + 1].tbl.points[<<S1.TypeKey, c>>].deleted
                   /\ StoredAsIn(hist[n + 2].tbl, S3, c)
                   /\ hist[n + 2].tbl.points[<<S1.TypeKey, c>>].id
                        = hist[n + 1].tbl.points[<<S1.TypeKey, c>>].id

PointMeets(pts, k, kinds) ==
    /\ TrimSpace(pts[k].Code) # ""
    /\ \A j \in 1..(k - 1) : pts[j].Code # pts[k].Code
    /\ pts[k].Kind \in kinds
    /\ TrimSpace(pts[k].NameEn) # ""
    /\ pts[k].FC # 0
    /\ TrimSpace(pts[k].DataType) # ""

HeaderMeets(spec) == TrimSpace(spec.TypeKey) # "" /\ TrimSpace(spec.NameEn) # ""

\* The error is the one of the first point of pts that fails the conditions.
FirstOffender(err, pts, kinds) ==
    \E k \in 1..Len(pts) :
        /\ ~PointMeets(pts, k, kinds)
        /\ \A j \in 1..(k - 1) : PointMeets(pts, j, kinds)
        /\ \/ err.at = k - 1
           \/ err.msg = "duplicate point code" /\ err.code = pts[k].Code

\* C22: ValidateSpec returns nil exactly for the specs whose type_key and
\* English name are non-empty and whose points all have a non-empty code not
\* used earlier, a kind among coil, discrete, holding, input, YK, YX, YC, YT,
\* an English name, a function code and a data type; a spec with a good
\* header and a bad point gets the error of its first bad point.
C22_AcceptsExactlyValid ==
    LET kinds == {RegHolding, RegInput, RegCoil, RegDiscrete} \cup KindAliases
        good == \A k \in 1..Len(vspec.Points) : PointMeets(vspec.Points, k, kinds)
    IN  verr # NoCall =>
          /\ (verr = NilErr) <=> (HeaderMeets(vspec) /\ good)
          /\ (HeaderMeets(vspec) /\ ~good) => FirstOffender(verr, vspec.Points, kinds)

\* C25: reading a Scalar with the getter of the kind whose setter wrote it
\* returns the value set and no error, and the Scalar holds that kind and
\* the number of raw bytes declared for it.
C25_SetGetRoundTrip ==
    (sset.k # KindInvalid /\ sget.k = sset.k) =>
        /\ sget.err = NoError
        /\ sget.val = sset.v
        /\ sc.Kind = sset.k
        /\ WidthOf(sset.k) # 0 => Len(sc.Raw) = WidthOf(sset.k)

\* C26: a getter called on a Scalar of another kind returns a kind-mismatch
\* error; one called on a Scalar of its kind whose raw length is not the
\* one of its type returns a length error; with either error it returns no
\* value.
C26_GetterErrors ==
    sget.k # KindInvalid =>
        /\ sc.Kind # sget.k => sget.err = KindErr
        /\ (sc.Kind = sget.k /\ WidthOf(sget.k) # 0 /\ Len(sc.Raw) # WidthOf(sget.k))
              => sget.err = LenErr
        /\ sget.err # NoError => sget.val = ZeroOf(sget.k)

\* C27: for a Scalar written by a setter, MarshalJSON succeeds, UnmarshalJSON
\* of its output succeeds, and the Scalar read back has the same kind and
\* the same raw bytes.
C27_JSONRoundTrip ==
    (sjs.done /\ sset.k # KindInvalid) =>
        /\ sjs.merr = NoError
        /\ sjs.uerr = NoError
        /\ sjs.out.Kind = sc.Kind
        /\ sjs.out.Raw = sc.Raw

\* The addresses a request names, start to start + quantity - 1, are all
\* defined for its handler.
InBank(h, req) ==
    CASE h = "coils" -> req.Quantity = 0 \/ req.Addr + req.Quantity <= 100
      [] h = "holding" -> req.Quantity = 0 \/ req.Addr + req.Quantity <= 65536
      [] h = "input" -> \A a \in req.Addr..(req.Addr + req.Quantity - 1) : a \in InputDefined
      [] OTHER -> TRUE

\* C28: a request with a unit id other than 1 to the coil, holding register
\* or input register handler is answered with ErrIllegalFunction and leaves
\* the registers as they were.
C28_UnitIdEnforced ==
    (sim.h \in {"coils", "holding", "input"} /\ sim.req.UnitId # 1) =>
        /\ sim.err = ErrIllegalFunction
        /\ bank = sim.before

\* C29: a request for unit 1 naming an address outside the registers its
\* handler defines is answered with ErrIllegalDataAddress and no data, and
\* leaves the registers as they were.
C29_OutsideBankRefused ==
    (sim.h \in {"coils", "holding", "input"} /\ sim.req.UnitId = 1
        /\ ~InBank(sim.h, sim.req)) =>
        /\ sim.err = ErrIllegalDataAddress
        /\ sim.res = <<>>
        /\ bank = sim.before

\* The registry before the n-th RegisterFactory call.
RegistryBefore(n) == IF n = 1 THEN <<>> ELSE rlog[n - 1].after

\* The calls of RegisterFactory with type t, in order.
CallsFor(t) == {n \in 1..Len(rlog) : rlog[n].f.Type = t}

\* The first call of RegisterFactory with type t.
FirstFor(t) == CHOOSE n \in CallsFor(t) : \A m \in CallsFor(t) : n <= m

\* C30: a RegisterFactory call with an empty type or with a type already
\* registered is refused and leaves the registry as it was, so the registry
\* and GetFactory give for each type the first factory registered for it.
C30_FirstFactoryStays ==
    /\ \A n \in 1..Len(rlog) :
         LET t == rlog[n].f.Type IN
         (t = "" \/ \E m \in 1..(n - 1) : rlog[m].f.Type = t) =>
             /\ rlog[n].panic
             /\ rlog[n].after = RegistryBefore(n)
    /\ \A t \in DOMAIN factories : factories[t] = rlog[FirstFor(t)].f
    /\ (rget.done /\ rget.ok) =>
         /\ CallsFor(rget.t) # {}
         /\ rget.f = rlog[FirstFor(rget.t)].f

\* C30 witness: GetFactory has returned the factory registered for a type,
\* then a second factory of that type was refused: the registry still holds
\* the first one.
C30_Witness ==
    /\ Len(rlog) >= 2
    /\ rlog[Len(rlog)].panic
    /\ rlog[Len(rlog)].f.Type # ""
    /\ rlog[Len(rlog)].f # rlog[FirstFor(rlog[Len(rlog)].f.Type)].f
    /\ rget.done /\ rget.ok /\ rget.t = rlog[Len(rlog)].f.Type
    /\ factories[rget.t] = rget.f

\* Nothing of the map, of the instances or of their goroutines changes.
NoSideEffect == instances' = instances /\ inst' = inst /\ poller' = poller

\* C31: Create with an empty type, an empty id or an unregistered type, and
\* Update or Destroy for a (type, id) that is not in the map, return their
\* error and leave the map and every instance as they were.
C31_RejectedCallsChangeNothing ==
    [][/\ \A t \in Threads :
            (th[t].pc = "up_lookup" /\ instances[th[t].key] = 0 /\ th'[t] # th[t])
               => (merr' = "Update" /\ th'[t].pc = "idle" /\ NoSideEffect)
       /\ \A t \in Threads :
            (th[t].pc = "ds_lock" /\ instances[th[t].key] = 0 /\ th'[t] # th[t])
               => (merr' = "Destroy" /\ th'[t].pc = "idle" /\ mgrMu' = mgrMu /\ NoSideEffect)
       /\ (calls' = calls + 1 /\ th' = th) => (merr' = "Create" /\ NoSideEffect)
       /\ merr' # merr => NoSideEffect]_vars

\* C31 witness: with a running instance in the map, a Destroy for another
\* key has returned its error, after a Create was refused.
C31_Witness ==
    /\ merr = "Destroy"
    /\ calls = MaxOps
    /\ \E k \in Keys : /\ instances[k] # 0
                       /\ inst[instances[k]].init
                       /\ \E s \in Slots : poller[instances[k]][s] # "none"

C33_StartsServerOfChannel ==
    \A i \in Insts, s \in Slots :
        (inst[i].typ = "cmbus" /\ poller[i][s] = "opening")
            => /\ ProtoField(i) # "nil"
               /\ ProtoField(i) = IF inst[i].clientURL[1] = "rtu"
                                  THEN inst[i].server1
                                  ELSE inst[i].server2

\* C34: Status.Linking of an mbus worker is true only while its client's
\* transport is open: it is false during the back-off after a failed open or
\* read, once the poller goroutine has exited, and once Close has returned.
C34_LinkingOnlyWhileOpen ==
    \A i \in Insts :
        (inst[i].typ = "mbus" /\ inst[i].Linking) => inst[i].client = "open"

\* C36: an Update of a running mbus worker with the configuration value the
\* server passed to Create keeps the worker as it is: UpdateConfig decides
\* against a restart and returns without calling Close and Init.
C36_SameConfigKeepsPoller ==
    [][\A t \in Threads :
          LET i == th[t].inst IN
          (/\ th[t].op = "Update" /\ th[t].pc = "uc_lock" /\ th'[t].pc # "uc_lock"
           /\ inst[i].typ = "mbus" /\ inst[i].init
           /\ th[t].raw \in CreateCfgs("mbus"))
              => /\ ~th'[t].restart
                 /\ th'[t].pc = "idle"
                 /\ poller' = poller]_vars

\* C37: the server process does not exit on SIGTERM or SIGINT before every
\* worker created through the manager has stopped: no poller goroutine of
\* it is running and its transport is closed.
C37_ExitAfterWorkersStopped ==
    exited => \A k \in Keys :
                 instances[k] # 0 =>
                    /\ Running(instances[k]) = {}
                    /\ TransportClosed(inst[instances[k]])

WantedDevices(devices) ==
    { TrimSpace(devices[i].Device) : i \in 1..Len(devices) } \ {""}

\* C40: after a SyncSerials that succeeded the device paths of the stored
\* rows are the distinct, trimmed, non-empty device paths of its list, one
\* row each, and a row of a listed device that was stored before is the
\* same row; after a SyncSerials that failed the table is as it was.
C40_SyncSerialsMatchesList ==
    slog.done =>
        IF slog.err = "nil"
        THEN /\ { r.Device : r \in chan } = WantedDevices(slog.devices)
             /\ \A r, q \in chan : r.Device = q.Device => r = q
             /\ \A r \in slog.before : r.Device \in WantedDevices(slog.devices) => r \in chan
        ELSE chan = slog.before

\* C40 witness: a successful SyncSerials with a path written with a blank
\* kept one stored row, inserted one and deleted one.
C40_Witness ==
    /\ slog.done /\ slog.err = "nil"
    /\ \E i \in 1..Len(slog.devices) :
          slog.devices[i].Device # TrimSpace(slog.devices[i].Device)
    /\ \E r \in chan : r \in slog.before
    /\ \E r \in chan : r \notin slog.before
    /\ \E r \in slog.before : r \notin chan

====
